---------------------------- MODULE Spec2Model ----------------------------
(***************************************************************************)
(* Formula validator (standalone backend, ANTLR pipeline).                 *)
(*                                                                         *)
(* A formula is a sequence of one-character strings.  ValidateFormula is   *)
(* modelled stage by stage: Trim, the FormulaLexer, the FormulaParser with *)
(* its CollectingErrorListener, SymbolCollector, BuildMeasuredLookup, the  *)
(* semantic checks, MergeConstants, EvalVisitor with FunctionRegistry and  *)
(* UnitResolver, and the NaN/infinity policy.                              *)
(*                                                                         *)
(* Doubles are modelled as exact rationals plus NaN, +Infinity, -Infinity, *)
(* an untracked finite value ("real") for results of transcendental        *)
(* functions outside the points where they are exact, and a whole number   *)
(* beyond the range of int ("big"), and plus and minus double.Epsilon, the  *)
(* smallest doubles other than zero ("eps").  Rounding and overflow of     *)
(* IEEE arithmetic are otherwise not modelled.                             *)
(***************************************************************************)
EXTENDS Integers, Sequences, FiniteSets, TLC

(***************************************************************************)
(* Characters                                                              *)
(***************************************************************************)
Digits == <<"0", "1", "2", "3", "4", "5", "6", "7", "8", "9">>

DigitSet == {Digits[i] : i \in 1..Len(Digits)}

Lowers == <<"a", "b", "c", "d", "e", "f", "g", "h", "i", "j", "k", "l", "m",
            "n", "o", "p", "q", "r", "s", "t", "u", "v", "w", "x", "y", "z">>

Uppers == <<"A", "B", "C", "D", "E", "F", "G", "H", "I", "J", "K", "L", "M",
            "N", "O", "P", "Q", "R", "S", "T", "U", "V", "W", "X", "Y", "Z">>

WhiteSet == {" ", "\t", "\r", "\n"}

IdentStartSet == {Lowers[i] : i \in 1..Len(Lowers)} \cup {Uppers[i] : i \in 1..Len(Uppers)} \cup {"_"}

IdentPartSet == IdentStartSet \cup DigitSet

DigitValue(c) == (CHOOSE i \in 1..Len(Digits) : Digits[i] = c) - 1

\* char.ToLowerInvariant, as used by StringComparer.OrdinalIgnoreCase
ToLowerChar(c) ==
    IF \E i \in 1..Len(Uppers) : Uppers[i] = c
    THEN Lowers[CHOOSE i \in 1..Len(Uppers) : Uppers[i] = c]
    ELSE c

ToLower(s) == [i \in 1..Len(s) |-> ToLowerChar(s[i])]

\* string.Equals(a, b, StringComparison.Ordinal)
EqualsOrdinal(a, b) == a = b

\* string.Equals(a, b, StringComparison.OrdinalIgnoreCase)
EqualsIgnoreCase(a, b) == ToLower(a) = ToLower(b)

RECURSIVE TrimStart(_, _)
\* string.TrimStart over the character set cs
TrimStart(s, cs) ==
    IF s # <<>> /\ Head(s) \in cs THEN TrimStart(Tail(s), cs) ELSE s

RECURSIVE TrimEnd(_, _)
TrimEnd(s, cs) ==
    IF s # <<>> /\ s[Len(s)] \in cs THEN TrimEnd(SubSeq(s, 1, Len(s) - 1), cs)
    ELSE s

\* string.Trim()
Trim(s) == TrimEnd(TrimStart(s, WhiteSet), WhiteSet)

\* string.IsNullOrWhiteSpace
IsNullOrWhiteSpace(s) == \A i \in 1..Len(s) : s[i] \in WhiteSet

StartsWith(s, c) == s # <<>> /\ s[1] = c

(***************************************************************************)
(* FormulaLexer (Formula.g4 lexer rules).  A token is                      *)
(* [type, text, line, col]; col is ANTLR's 0-based charPositionInLine.     *)
(* LBRACK and RBRACK belong to the grammar revision that the visitors are  *)
(* written against (varRefSuffix).                                         *)
(***************************************************************************)
Token(type, text, line, col) ==
    [type |-> type, text |-> text, line |-> line, col |-> col]

PunctType ==
    [c \in {"+", "-", "*", "/", "%", "^", "(", ")", ",", ".", "$", "#", ">", "<"} |->
        CASE c = "+" -> "PLUS"
          [] c = "-" -> "MINUS"
          [] c = "*" -> "STAR"
          [] c = "/" -> "SLASH"
          [] c = "%" -> "PERCENT"
          [] c = "^" -> "POW"
          [] c = "(" -> "LPAREN"
          [] c = ")" -> "RPAREN"
          [] c = "," -> "COMMA"
          [] c = "." -> "DOT"
          [] c = "$" -> "DOLLAR"
          [] c = "#" -> "HASH"
          [] c = ">" -> "GT"
          [] c = "<" -> "LT"]

BracketType == [c \in {"[", "]"} |-> IF c = "[" THEN "LBRACK" ELSE "RBRACK"]

RECURSIVE RunEnd(_, _, _)
\* index just past the longest run of characters of cs starting at i
RunEnd(s, i, cs) ==
    IF i <= Len(s) /\ s[i] \in cs THEN RunEnd(s, i + 1, cs) ELSE i

\* NUMBER : DIGIT+ ('.' DIGIT+)? ( [eE] [+-]? DIGIT+ )? ; longest match,
\* returns the index just past the token that starts at digit i
NumberEnd(s, i) ==
    LET intEnd == RunEnd(s, i, DigitSet)
        fracEnd == IF intEnd + 1 <= Len(s) /\ s[intEnd] = "." /\ s[intEnd + 1] \in DigitSet
                   THEN RunEnd(s, intEnd + 1, DigitSet)
                   ELSE intEnd
        signEnd == IF fracEnd <= Len(s) /\ s[fracEnd] \in {"e", "E"}
                   THEN IF fracEnd + 1 <= Len(s) /\ s[fracEnd + 1] \in {"+", "-"}
                        THEN fracEnd + 2
                        ELSE fracEnd + 1
                   ELSE 0
    IN IF signEnd # 0 /\ signEnd <= Len(s) /\ s[signEnd] \in DigitSet
       THEN RunEnd(s, signEnd, DigitSet)
       ELSE fracEnd

CompareType(two) ==
    CASE two = <<">", "=">> -> "GE"
      [] two = <<"<", "=">> -> "LE"
      [] two = <<"=", "=">> -> "EQ"
      [] two = <<"!", "=">> -> "NEQ"
      [] OTHER -> "NONE"

RECURSIVE LexFrom(_, _, _, _, _, _)
\* FormulaLexer.NextToken repeated to EOF.  toks: tokens emitted so far;
\* dropped: the start positions of the characters the lexer could not match.
\* The lexer keeps its default listener (the service only replaces the
\* parser's listeners), so such a character is reported on the console and
\* skipped by Lexer.Recover; no token is produced for it.
LexFrom(s, i, line, col, toks, dropped) ==
    IF i > Len(s)
    THEN [tokens |-> Append(toks, Token("EOF", <<"<", "E", "O", "F", ">">>, line, col)),
          dropped |-> dropped]
    ELSE
    LET c == s[i]
        two == IF i + 1 <= Len(s) THEN <<s[i], s[i + 1]>> ELSE <<s[i]>>
    IN
    IF c \in WhiteSet
    THEN IF c = "\n"
         THEN LexFrom(s, i + 1, line + 1, 0, toks, dropped)
         ELSE LexFrom(s, i + 1, line, col + 1, toks, dropped)
    ELSE IF c \in DigitSet
    THEN LET e == NumberEnd(s, i)
         IN LexFrom(s, e, line, col + (e - i),
                    Append(toks, Token("NUMBER", SubSeq(s, i, e - 1), line, col)), dropped)
    ELSE IF c \in IdentStartSet
    THEN LET e == RunEnd(s, i, IdentPartSet)
         IN LexFrom(s, e, line, col + (e - i),
                    Append(toks, Token("IDENT", SubSeq(s, i, e - 1), line, col)), dropped)
    ELSE IF CompareType(two) # "NONE"
    THEN LexFrom(s, i + 2, line, col + 2,
                 Append(toks, Token(CompareType(two), two, line, col)), dropped)
    ELSE IF c \in DOMAIN PunctType
    THEN LexFrom(s, i + 1, line, col + 1,
                 Append(toks, Token(PunctType[c], <<c>>, line, col)), dropped)
    ELSE IF c \in DOMAIN BracketType
    THEN LexFrom(s, i + 1, line, col + 1,
                 Append(toks, Token(BracketType[c], <<c>>, line, col)), dropped)
    ELSE IF c \in {"=", "!"} /\ i + 1 <= Len(s)
    THEN \* the prefix of == / != matched one character before failing:
         \* Recover consumes the character the match stopped at as well
         IF s[i + 1] = "\n"
         THEN LexFrom(s, i + 2, line + 1, 0, toks, Append(dropped, [line |-> line, col |-> col]))
         ELSE LexFrom(s, i + 2, line, col + 2, toks, Append(dropped, [line |-> line, col |-> col]))
    ELSE LexFrom(s, i + 1, line, col + 1, toks, Append(dropped, [line |-> line, col |-> col]))

Lex(s) == LexFrom(s, 1, 1, 0, <<>>, <<>>)

(***************************************************************************)
(* FormulaParser (Formula.g4 parser rules).  A tree node is                *)
(* [t, text, kids, ops]: t is the context type, text the token text of a   *)
(* leaf, kids the child contexts in order, ops the operator texts between  *)
(* the operands of a cmp/add/mul/pow context.  A parse result is           *)
(* [ok, node, i]: i is the index of the next token, or of the offending    *)
(* token when ok is FALSE.                                                 *)
(***************************************************************************)
Node(t, text, kids, ops) == [t |-> t, text |-> text, kids |-> kids, ops |-> ops]

Parsed(node, i) == [ok |-> TRUE, node |-> node, i |-> i]

Failed(i) == [ok |-> FALSE, node |-> Node("nil", <<>>, <<>>, <<>>), i |-> i]

\* cmp : add ((GE|LE|EQ|NEQ|GT|LT) add)* ;  add : mul ((PLUS|MINUS) mul)* ;
\* mul : pow ((STAR|SLASH|PERCENT) pow)* ;  pow : unary (POW unary)* ;
LevelName == <<"cmp", "add", "mul", "pow">>

LevelOps == <<{"GE", "LE", "EQ", "NEQ", "GT", "LT"}, {"PLUS", "MINUS"},
              {"STAR", "SLASH", "PERCENT"}, {"POW"}>>

RECURSIVE ParseLevel(_, _, _)
RECURSIVE ParseRest(_, _, _, _, _)
RECURSIVE ParseUnary(_, _)
RECURSIVE ParsePrimary(_, _)
RECURSIVE ParseSuffixes(_, _, _)
RECURSIVE ParseArgs(_, _, _)

\* expr : cmp ;
ParseExpr(ts, i) == ParseLevel(1, ts, i)

ParseLevel(l, ts, i) ==
    IF l > Len(LevelName) THEN ParseUnary(ts, i)
    ELSE LET first == ParseLevel(l + 1, ts, i)
         IN IF first.ok THEN ParseRest(l, ts, first.i, <<first.node>>, <<>>)
            ELSE first

ParseRest(l, ts, i, kids, ops) ==
    IF ts[i].type \in LevelOps[l]
    THEN LET rhs == ParseLevel(l + 1, ts, i + 1)
         IN IF rhs.ok
            THEN ParseRest(l, ts, rhs.i, Append(kids, rhs.node), Append(ops, ts[i].text))
            ELSE rhs
    ELSE Parsed(Node(LevelName[l], <<>>, kids, ops), i)

\* unary : PLUS unary | MINUS unary | primary ;
ParseUnary(ts, i) ==
    IF ts[i].type \in {"PLUS", "MINUS"}
    THEN LET u == ParseUnary(ts, i + 1)
         IN IF u.ok
            THEN Parsed(Node(IF ts[i].type = "PLUS" THEN "unaryPlus" ELSE "unaryMinus",
                             <<>>, <<u.node>>, <<>>), u.i)
            ELSE u
    ELSE ParsePrimary(ts, i)

\* varRefSuffix : DOT IDENT | LBRACK expr RBRACK ;
ParseSuffixes(ts, i, acc) ==
    IF ts[i].type = "DOT"
    THEN IF ts[i + 1].type = "IDENT"
         THEN ParseSuffixes(ts, i + 2, Append(acc, Node("unit", ts[i + 1].text, <<>>, <<>>)))
         ELSE Failed(i + 1)
    ELSE IF ts[i].type = "LBRACK"
    THEN LET e == ParseExpr(ts, i + 1)
         IN IF ~e.ok THEN e
            ELSE IF ts[e.i].type = "RBRACK"
            THEN ParseSuffixes(ts, e.i + 1, Append(acc, Node("index", <<>>, <<e.node>>, <<>>)))
            ELSE Failed(e.i)
    ELSE Parsed(Node("suffixes", <<>>, acc, <<>>), i)

\* expr (COMMA expr)* RPAREN, after the first expr has been recognised
ParseArgs(ts, i, acc) ==
    IF ts[i].type = "COMMA"
    THEN LET e == ParseExpr(ts, i + 1)
         IN IF e.ok THEN ParseArgs(ts, e.i, Append(acc, e.node)) ELSE e
    ELSE IF ts[i].type = "RPAREN"
    THEN Parsed(Node("args", <<>>, acc, <<>>), i + 1)
    ELSE Failed(i)

\* primary : NUMBER | varRef | constRef | funcCall | LPAREN expr RPAREN ;
\* varRef : DOLLAR IDENT varRefSuffix* ;  constRef : HASH IDENT ;
\* funcCall : IDENT LPAREN (expr (COMMA expr)*)? RPAREN ;
ParsePrimary(ts, i) ==
    LET ty == ts[i].type IN
    IF ty = "NUMBER" THEN Parsed(Node("number", ts[i].text, <<>>, <<>>), i + 1)
    ELSE IF ty = "DOLLAR"
    THEN IF ts[i + 1].type = "IDENT"
         THEN LET sx == ParseSuffixes(ts, i + 2, <<>>)
              IN IF sx.ok THEN Parsed(Node("varRef", ts[i + 1].text, sx.node.kids, <<>>), sx.i)
                 ELSE sx
         ELSE Failed(i + 1)
    ELSE IF ty = "HASH"
    THEN IF ts[i + 1].type = "IDENT"
         THEN Parsed(Node("constRef", ts[i + 1].text, <<>>, <<>>), i + 2)
         ELSE Failed(i + 1)
    ELSE IF ty = "IDENT"
    THEN IF ts[i + 1].type # "LPAREN" THEN Failed(i + 1)
         ELSE IF ts[i + 2].type = "RPAREN"
         THEN Parsed(Node("funcCall", ts[i].text, <<>>, <<>>), i + 3)
         ELSE LET e == ParseExpr(ts, i + 2)
                  as == IF e.ok THEN ParseArgs(ts, e.i, <<e.node>>) ELSE e
              IN IF as.ok THEN Parsed(Node("funcCall", ts[i].text, as.node.kids, <<>>), as.i)
                 ELSE as
    ELSE IF ty = "LPAREN"
    THEN LET e == ParseExpr(ts, i + 1)
         IN IF ~e.ok THEN e
            ELSE IF ts[e.i].type = "RPAREN"
            THEN Parsed(Node("paren", <<>>, <<e.node>>, <<>>), e.i + 1)
            ELSE Failed(e.i)
    ELSE Failed(i)

\* formula : expr EOF ;
ParseFormula(ts) ==
    LET e == ParseExpr(ts, 1)
    IN IF ~e.ok THEN e
       ELSE IF ts[e.i].type = "EOF" THEN Parsed(Node("formula", <<>>, <<e.node>>, <<>>), e.i)
       ELSE Failed(e.i)

RemoveAt(ts, k) == [j \in 1..(Len(ts) - 1) |-> IF j < k THEN ts[j] ELSE ts[j + 1]]

RECURSIVE SyntaxErrorReports(_)
\* The offending tokens the parser reports to its error listeners during
\* parser.formula(), in order.  The first is the first token that cannot
\* continue the input read so far; the parser then recovers by dropping the
\* offending token and goes on, which can produce further reports.
SyntaxErrorReports(ts) ==
    LET r == ParseFormula(ts)
    IN IF r.ok THEN <<>>
       ELSE IF ts[r.i].type = "EOF" THEN <<ts[r.i]>>
       ELSE <<ts[r.i]>> \o SyntaxErrorReports(RemoveAt(ts, r.i))

(***************************************************************************)
(* Messages.  A message is [prefix, text, args, nums]: text is the message *)
(* template, args the interpolated strings and nums the interpolated       *)
(* numbers in order, prefix is "Validation error: " when the fallback      *)
(* handler built the message.  NoMsg stands for a null string.             *)
(***************************************************************************)
NoMsg == [prefix |-> "", text |-> "", args |-> <<>>, nums |-> <<>>]

MsgWith(text, args, nums) == [prefix |-> "", text |-> text, args |-> args, nums |-> nums]

Msg(text) == MsgWith(text, <<>>, <<>>)

MsgArg(text, arg) == MsgWith(text, <<arg>>, <<>>)

(***************************************************************************)
(* CollectingErrorListener                                                 *)
(***************************************************************************)
\* the text SyntaxError builds for one report
SyntaxErrorMessage(tok) ==
    IF tok.text = <<"<", "E", "O", "F", ">">>
    THEN MsgWith("Unexpected end of formula at [line L, col C]", <<>>, <<tok.line, tok.col + 1>>)
    ELSE IF tok.text = <<")">>
    THEN MsgWith("Unexpected token: ')' at [line L, col C]", <<>>, <<tok.line, tok.col + 1>>)
    ELSE IF tok.text = <<"(">>
    THEN MsgWith("Unexpected token: '(' at [line L, col C]", <<>>, <<tok.line, tok.col + 1>>)
    ELSE MsgWith("Syntax error near '<tok>' at [line L, col C]", <<tok.text>>, <<tok.line, tok.col + 1>>)

\* SyntaxError without the guard on _error: every report overwrites
SyntaxErrorKeepingLast(error, tok) == SyntaxErrorMessage(tok)

\* CollectingErrorListener.SyntaxError: _error after one more report
SyntaxError(error, tok) ==
    IF error # NoMsg THEN error ELSE SyntaxErrorMessage(tok)

RECURSIVE ListenerError(_, _)
\* _error after the parser has delivered all its reports (NoMsg: HasError is false)
ListenerError(error, reports) ==
    IF reports = <<>> THEN error
    ELSE ListenerError(SyntaxError(error, Head(reports)), Tail(reports))

(***************************************************************************)
(* Doubles.  [k, n, d]: k = "fin" is the rational n/d in lowest terms with *)
(* d > 0; "nan", "pinf", "ninf" are the IEEE specials; "real" is a finite  *)
(* value the model does not track; "big" is a whole number of sign n whose *)
(* magnitude exceeds int.MaxValue; "eps" is double.Epsilon with the sign   *)
(* n; "null" is the absent double?.                                        *)
(***************************************************************************)
RECURSIVE Gcd(_, _)
\* FunctionRegistry.Gcd
Gcd(a, b) ==
    LET x == IF a < 0 THEN -a ELSE a
        y == IF b < 0 THEN -b ELSE b
    IN IF y = 0 THEN x ELSE Gcd(y, x % y)

Special(k) == [k |-> k, n |-> 0, d |-> 1]

NaN == Special("nan")

PInf == Special("pinf")

NInf == Special("ninf")

Real == Special("real")

NullDouble == Special("null")

Big(sign) == [k |-> "big", n |-> sign, d |-> 1]

\* double.Epsilon (sign = 1) and -double.Epsilon (sign = -1)
Eps(sign) == [k |-> "eps", n |-> sign, d |-> 1]

\* a finite value whose digits the model does not hold
Untracked(v) == v.k \in {"real", "big"}

Fin(n, d) ==
    LET g == Gcd(n, d)
        s == IF d < 0 THEN -1 ELSE 1
    IN [k |-> "fin", n |-> (s * n) \div g, d |-> (s * d) \div g]

Int2D(n) == [k |-> "fin", n |-> n, d |-> 1]

IsNaN(v) == v.k = "nan"

IsInfinity(v) == v.k \in {"pinf", "ninf"}

Neg(v) ==
    CASE v.k = "fin" -> Fin(-v.n, v.d)
      [] v.k = "pinf" -> NInf
      [] v.k = "ninf" -> PInf
      [] v.k = "big" -> Big(-v.n)
      [] v.k = "eps" -> Eps(-v.n)
      [] OTHER -> v

\* -1, 0, 1 for a tracked value; "real" counts as positive
SignOf(v) ==
    CASE v.k = "fin" -> IF v.n > 0 THEN 1 ELSE IF v.n < 0 THEN -1 ELSE 0
      [] v.k = "ninf" -> -1
      [] v.k \in {"big", "eps"} -> v.n
      [] OTHER -> 1

InfOfSign(s) == IF s < 0 THEN NInf ELSE PInf

\* double.Epsilon of the given sign times the finite f, rounded to the nearest
\* double: the neighbours of double.Epsilon are 0 and 2 * double.Epsilon, and
\* a tie goes to the even one of the two
EpsTimes(sign, f) ==
    IF f.k = "eps" THEN Int2D(0)
    ELSE IF f.k # "fin" THEN Real
    ELSE LET m == IF f.n < 0 THEN -f.n ELSE f.n
         IN IF 2 * m <= f.d THEN Int2D(0)
            ELSE IF 2 * m < 3 * f.d THEN Eps(sign * SignOf(f))
            ELSE Real

DAdd(a, b) ==
    IF IsNaN(a) \/ IsNaN(b) THEN NaN
    ELSE IF IsInfinity(a) /\ IsInfinity(b) THEN IF a = b THEN a ELSE NaN
    ELSE IF IsInfinity(a) THEN a
    ELSE IF IsInfinity(b) THEN b
    ELSE IF a.k = "eps" /\ b.k = "eps" THEN IF a.n = b.n THEN Real ELSE Int2D(0)
    \* double.Epsilon is absorbed by any other value that is not zero
    ELSE IF a.k = "eps" THEN IF SignOf(b) = 0 THEN a ELSE b
    ELSE IF b.k = "eps" THEN IF SignOf(a) = 0 THEN b ELSE a
    ELSE IF Untracked(a) \/ Untracked(b) THEN Real
    ELSE Fin(a.n * b.d + b.n * a.d, a.d * b.d)

DSub(a, b) == DAdd(a, Neg(b))

DMul(a, b) ==
    IF IsNaN(a) \/ IsNaN(b) THEN NaN
    ELSE IF IsInfinity(a) \/ IsInfinity(b)
    THEN IF SignOf(a) = 0 \/ SignOf(b) = 0 THEN NaN ELSE InfOfSign(SignOf(a) * SignOf(b))
    ELSE IF a.k = "eps" THEN EpsTimes(a.n, b)
    ELSE IF b.k = "eps" THEN EpsTimes(b.n, a)
    ELSE IF Untracked(a) \/ Untracked(b) THEN Real
    ELSE Fin(a.n * b.n, a.d * b.d)

DDiv(a, b) ==
    IF IsNaN(a) \/ IsNaN(b) THEN NaN
    ELSE IF IsInfinity(a) THEN IF IsInfinity(b) THEN NaN
                               ELSE InfOfSign(SignOf(a) * (IF SignOf(b) < 0 THEN -1 ELSE 1))
    ELSE IF IsInfinity(b) THEN Int2D(0)
    ELSE IF SignOf(b) = 0 THEN IF SignOf(a) = 0 THEN NaN ELSE InfOfSign(SignOf(a))
    ELSE IF a.k = "eps" /\ b.k = "eps" THEN Int2D(a.n * b.n)
    ELSE IF a.k = "eps" THEN IF b.k = "fin" THEN EpsTimes(a.n, Fin(b.d, b.n))
                             ELSE IF b.k = "big" THEN Int2D(0) ELSE Real
    \* a quotient by double.Epsilon overflows unless the dividend is zero
    ELSE IF b.k = "eps" THEN IF SignOf(a) = 0 THEN a ELSE InfOfSign(SignOf(a) * b.n)
    ELSE IF Untracked(a) \/ Untracked(b) THEN Real
    ELSE Fin(a.n * b.d, a.d * b.n)

\* truncation toward zero of the rational n/d, d > 0
TruncDiv(n, d) == IF n >= 0 THEN n \div d ELSE -((-n) \div d)

Floor(v) == Int2D(v.n \div v.d)

\* the C# % operator on doubles: remainder with the sign of the dividend
DMod(a, b) ==
    IF IsNaN(a) \/ IsNaN(b) \/ IsInfinity(a) THEN NaN
    ELSE IF IsInfinity(b) THEN a
    ELSE IF SignOf(b) = 0 THEN NaN
    \* every double is a multiple of double.Epsilon
    ELSE IF b.k = "eps" THEN Int2D(0)
    ELSE IF a.k = "eps" THEN a
    ELSE IF Untracked(a) \/ Untracked(b) THEN Real
    ELSE LET q == DDiv(a, b)
         IN DSub(a, DMul(b, Int2D(TruncDiv(q.n, q.d))))

Less(a, b) == a.n * b.d < b.n * a.d

\* a < b on doubles; FALSE whenever a NaN is involved
DLess(a, b) ==
    IF IsNaN(a) \/ IsNaN(b) THEN FALSE
    ELSE IF a = b THEN FALSE
    ELSE IF a.k = "ninf" \/ b.k = "pinf" THEN TRUE
    ELSE IF a.k = "pinf" \/ b.k = "ninf" THEN FALSE
    ELSE IF a.k = "real" \/ b.k = "real" THEN FALSE
    ELSE IF a.k = "eps" THEN IF b.k = "eps" THEN a.n < b.n
                             ELSE SignOf(b) > 0 \/ (SignOf(b) = 0 /\ a.n < 0)
    ELSE IF b.k = "eps" THEN SignOf(a) < 0 \/ (SignOf(a) = 0 /\ b.n > 0)
    ELSE IF a.k = "big" THEN a.n < 0 /\ (b.k = "fin" \/ b.n > 0)
    ELSE IF b.k = "big" THEN b.n > 0
    ELSE Less(a, b)

DAbs(v) == IF SignOf(v) < 0 THEN Neg(v) ELSE v

RECURSIVE IntPow(_, _)
IntPow(v, e) == IF e = 0 THEN Int2D(1) ELSE DMul(v, IntPow(v, e - 1))

\* Math.Pow
DPow(a, b) ==
    IF b.k = "fin" /\ b.n = 0 THEN Int2D(1)
    ELSE IF a = Int2D(1) THEN Int2D(1)
    ELSE IF IsNaN(a) \/ IsNaN(b) THEN NaN
    ELSE IF b.k = "fin" /\ b.d = 1
    THEN IF b.n > 0 THEN IntPow(a, b.n) ELSE DDiv(Int2D(1), IntPow(a, -b.n))
    ELSE IF IsInfinity(b)
    THEN LET m == DAbs(a)
         IN IF m = Int2D(1) THEN Int2D(1)
            ELSE IF DLess(m, Int2D(1)) = (b.k = "pinf") THEN Int2D(0) ELSE PInf
    ELSE IF SignOf(a) < 0 THEN NaN
    ELSE IF SignOf(a) = 0 THEN IF SignOf(b) > 0 THEN Int2D(0) ELSE PInf
    ELSE IF IsInfinity(a) THEN IF SignOf(b) > 0 THEN PInf ELSE Int2D(0)
    ELSE Real

RECURSIVE Pow10(_)
Pow10(e) == IF e = 0 THEN 1 ELSE 10 * Pow10(e - 1)

RECURSIVE DigitsValue(_)
DigitsValue(s) ==
    IF s = <<>> THEN 0 ELSE 10 * DigitsValue(SubSeq(s, 1, Len(s) - 1)) + DigitValue(s[Len(s)])

\* the largest decimal exponent of a finite double
MaxDoubleExp10 == 308

\* the number of decimal digits of int.MaxValue, 2147483647
IntMaxDigits == 10

\* double.Epsilon is 4.94...e-324: the decimal exponent of its leading digit
EpsilonExp10 == 324

\* the first digits of double.Epsilon / 2 = 2.47032822...e-324 and of
\* 3 * double.Epsilon / 2 = 7.41098468...e-324, between which a decimal
\* rounds to double.Epsilon
EpsilonDigits == 9

HalfEpsilonLead == 247032822

ThreeHalvesEpsilonLead == 741098468

\* the double nearest to d1.d2 ... * 10^(-scale) for the significant
\* digits d1 d2 ..., d1 # 0, of a literal, where scale > MaxDoubleExp10;
\* the digits after the first EpsilonDigits are not looked at
ParseSubnormal(digits, scale) ==
    LET lead == DigitsValue(SubSeq(digits, 1, IF Len(digits) < EpsilonDigits
                                              THEN Len(digits) ELSE EpsilonDigits))
                    * Pow10(IF Len(digits) < EpsilonDigits
                            THEN EpsilonDigits - Len(digits) ELSE 0)
    IN IF scale > EpsilonExp10 THEN Int2D(0)
       ELSE IF scale < EpsilonExp10 THEN Real
       ELSE IF lead <= HalfEpsilonLead THEN Int2D(0)
       ELSE IF lead <= ThreeHalvesEpsilonLead THEN Eps(1)
       ELSE Real

\* double.Parse(txt, NumberStyles.Float, CultureInfo.InvariantCulture) of a
\* NUMBER token; a whole number of more than IntMaxDigits digits is "big"
ParseDouble(txt) ==
    LET intEnd == RunEnd(txt, 1, DigitSet)
        hasFrac == intEnd <= Len(txt) /\ txt[intEnd] = "."
        fracEnd == IF hasFrac THEN RunEnd(txt, intEnd + 1, DigitSet) ELSE intEnd
        frac == IF hasFrac THEN SubSeq(txt, intEnd + 1, fracEnd - 1) ELSE <<>>
        hasExp == fracEnd <= Len(txt)
        expNeg == hasExp /\ txt[fracEnd + 1] = "-"
        expFrom == IF hasExp /\ txt[fracEnd + 1] \in {"+", "-"} THEN fracEnd + 2 ELSE fracEnd + 1
        exp == IF hasExp THEN DigitsValue(SubSeq(txt, expFrom, Len(txt))) ELSE 0
        mant == Fin(DigitsValue(SubSeq(txt, 1, intEnd - 1) \o frac), Pow10(Len(frac)))
        significant == Len(TrimStart(SubSeq(txt, 1, intEnd - 1) \o frac, {"0"}))
    IN IF mant.n = 0 THEN Int2D(0)
       ELSE IF exp > MaxDoubleExp10
       THEN IF expNeg
            THEN ParseSubnormal(TrimStart(SubSeq(txt, 1, intEnd - 1) \o frac, {"0"}),
                                exp + Len(frac) - significant + 1)
            ELSE PInf
       ELSE IF ~expNeg /\ exp >= Len(frac) /\ significant + exp - Len(frac) > IntMaxDigits
       THEN Big(1)
       ELSE IF expNeg THEN DDiv(mant, Int2D(Pow10(exp)))
       ELSE DMul(mant, Int2D(Pow10(exp)))

(***************************************************************************)
(* FunctionRegistry.  An outcome is [ok, v, exc, msg]: the value returned, *)
(* or the type and message of the exception thrown.                        *)
(***************************************************************************)
Ok(v) == [ok |-> TRUE, v |-> v, exc |-> "", msg |-> NoMsg]

Throw(exc, msg) == [ok |-> FALSE, v |-> NullDouble, exc |-> exc, msg |-> msg]

\* the keys of FunctionRegistry.Functions, each with a tag naming its lambda
FunctionTable ==
   <<
      [name |-> <<"s", "i", "n">>, impl |-> "sin"],
      [name |-> <<"c", "o", "s">>, impl |-> "cos"],
      [name |-> <<"t", "a", "n">>, impl |-> "tan"],
      [name |-> <<"a", "s", "i", "n">>, impl |-> "asin"],
      [name |-> <<"a", "c", "o", "s">>, impl |-> "acos"],
      [name |-> <<"a", "t", "a", "n">>, impl |-> "atan"],
      [name |-> <<"s", "i", "n", "h">>, impl |-> "sinh"],
      [name |-> <<"c", "o", "s", "h">>, impl |-> "cosh"],
      [name |-> <<"t", "a", "n", "h">>, impl |-> "tanh"],
      [name |-> <<"l", "n">>, impl |-> "ln"],
      [name |-> <<"l", "o", "g", "1", "0">>, impl |-> "log10"],
      [name |-> <<"l", "o", "g", "2">>, impl |-> "log2"],
      [name |-> <<"e", "x", "p">>, impl |-> "exp"],
      [name |-> <<"s", "q", "r", "t">>, impl |-> "sqrt"],
      [name |-> <<"p", "o", "w">>, impl |-> "pow"],
      [name |-> <<"f", "l", "o", "o", "r">>, impl |-> "floor"],
      [name |-> <<"c", "e", "i", "l">>, impl |-> "ceil"],
      [name |-> <<"r", "o", "u", "n", "d">>, impl |-> "round"],
      [name |-> <<"a", "b", "s">>, impl |-> "abs"],
      [name |-> <<"s", "i", "g", "n">>, impl |-> "sign"],
      [name |-> <<"s", "g", "n">>, impl |-> "sgn"],
      [name |-> <<"m", "i", "n">>, impl |-> "min"],
      [name |-> <<"m", "a", "x">>, impl |-> "max"],
      [name |-> <<"s", "u", "m">>, impl |-> "sum"],
      [name |-> <<"p", "r", "o", "d">>, impl |-> "prod"],
      [name |-> <<"m", "e", "a", "n">>, impl |-> "mean"],
      [name |-> <<"a", "v", "g">>, impl |-> "avg"],
      [name |-> <<"v", "a", "r">>, impl |-> "var"],
      [name |-> <<"s", "t", "d">>, impl |-> "std"],
      [name |-> <<"i", "f">>, impl |-> "if"],
      [name |-> <<"m", "o", "d">>, impl |-> "mod"],
      [name |-> <<"f", "a", "c", "t">>, impl |-> "fact"],
      [name |-> <<"g", "c", "d">>, impl |-> "gcd"],
      [name |-> <<"l", "c", "m">>, impl |-> "lcm"]
   >>

\* Functions.TryGetValue(fname, out impl); the dictionary ignores case
HasFunction(fname) == \E i \in 1..Len(FunctionTable) : EqualsIgnoreCase(FunctionTable[i].name, fname)

FunctionImpl(fname) ==
    FunctionTable[CHOOSE i \in 1..Len(FunctionTable) : EqualsIgnoreCase(FunctionTable[i].name, fname)].impl

\* FunctionRegistry.One
One(a) ==
    IF Len(a) # 1 THEN Throw("ArgumentException", Msg("Function expects 1 argument."))
    ELSE Ok(a[1])

\* FunctionRegistry.Arg; i is the C# (0-based) index
Arg(a, i) ==
    IF i >= Len(a)
    THEN Throw("ArgumentException",
               MsgWith("Function expects at least N arguments.", <<>>, <<i + 1>>))
    ELSE Ok(a[i + 1])

MinOf(a, b) == IF IsNaN(a) \/ IsNaN(b) THEN NaN ELSE IF DLess(b, a) THEN b ELSE a

MaxOf(a, b) == IF IsNaN(a) THEN b ELSE IF IsNaN(b) THEN a ELSE IF DLess(a, b) THEN b ELSE a

RECURSIVE Aggregate(_, _, _)
\* the accumulating loop of Sum, Product, Min and Max over the array a
Aggregate(kind, acc, a) ==
    IF a = <<>> THEN acc
    ELSE Aggregate(kind,
                   CASE kind = "sum" -> DAdd(acc, Head(a))
                     [] kind = "prod" -> DMul(acc, Head(a))
                     [] kind = "min" -> MinOf(acc, Head(a))
                     [] kind = "max" -> MaxOf(acc, Head(a)),
                   Tail(a))

\* FunctionRegistry.Product
Product(values) ==
    IF Len(values) = 0
    THEN Throw("ArgumentException", Msg("Function expects at least 1 argument."))
    ELSE Ok(Aggregate("prod", Int2D(1), values))

\* Enumerable.Sum
Sum(values) == Aggregate("sum", Int2D(0), values)

\* Enumerable.Average: throws on an empty sequence
Average(values) ==
    IF Len(values) = 0
    THEN Throw("InvalidOperationException", Msg("Sequence contains no elements"))
    ELSE Ok(DDiv(Sum(values), Int2D(Len(values))))

\* FunctionRegistry.Variance
Variance(values) ==
    IF Len(values) < 2
    THEN Throw("ArgumentException", Msg("Function expects at least 2 arguments."))
    ELSE LET mean == DDiv(Sum(values), Int2D(Len(values)))
             sq == [i \in 1..Len(values) |-> DPow(DSub(values[i], mean), Int2D(2))]
         IN Ok(DDiv(Sum(sq), Int2D(Len(values))))

\* Enumerable.Min / Enumerable.Max: throw on an empty sequence
MinMax(kind, values) ==
    IF Len(values) = 0
    THEN Throw("InvalidOperationException", Msg("Sequence contains no elements"))
    ELSE Ok(Aggregate(kind, Head(values), Tail(values)))

\* FunctionRegistry.ToBool, Math.Abs(v) > double.Epsilon: v is not NaN, not
\* zero and not double.Epsilon of either sign
ToBool(v) == ~IsNaN(v) /\ SignOf(v) # 0 /\ v.k # "eps"

\* Math.Round(x, MidpointRounding.AwayFromZero) of a rational
RoundAway(v) ==
    LET twice == 2 * (IF v.n < 0 THEN -v.n ELSE v.n) + v.d
        mag == twice \div (2 * v.d)
    IN Int2D(IF v.n < 0 THEN -mag ELSE mag)

\* Math.Round(x): midpoints go to the even neighbour
RoundEven(v) ==
    LET fl == v.n \div v.d
        twiceRem == 2 * (v.n - fl * v.d)
    IN Int2D(IF twiceRem < v.d THEN fl
             ELSE IF twiceRem > v.d THEN fl + 1
             ELSE IF fl % 2 = 0 THEN fl ELSE fl + 1)

\* the largest digits argument Math.Round accepts
MaxRoundDigits == 15

\* the lambda of "round"
Round(a) ==
    IF Len(a) = 0
    THEN Throw("IndexOutOfRangeException", Msg("Index was outside the bounds of the array."))
    ELSE IF Len(a) = 1
    THEN Ok(IF a[1].k = "fin" THEN RoundAway(a[1])
            ELSE IF a[1].k = "eps" THEN Int2D(0) ELSE a[1])
    ELSE IF a[2].k # "fin" \/ TruncDiv(a[2].n, a[2].d) < 0 \/ TruncDiv(a[2].n, a[2].d) > MaxRoundDigits
    THEN Throw("ArgumentOutOfRangeException", Msg("Rounding digits must be between 0 and 15, inclusive."))
    ELSE IF a[1].k = "eps" THEN Ok(Int2D(0))
    ELSE IF a[1].k # "fin" THEN Ok(a[1])
    ELSE LET scale == Int2D(Pow10(TruncDiv(a[2].n, a[2].d)))
         IN Ok(DDiv(RoundAway(DMul(a[1], scale)), scale))

\* a long is four words of sixteen bits, the least significant first
LongWord == 65536

RECURSIVE MulLong(_, _, _)
\* acc * i of longs, unchecked: the carry out of the last word is dropped
MulLong(acc, i, carry) ==
    IF acc = <<>> THEN <<>>
    ELSE <<(Head(acc) * i + carry) % LongWord>>
             \o MulLong(Tail(acc), i, (Head(acc) * i + carry) \div LongWord)

\* (double)acc: a long within the range of int keeps its digits
LongToDouble(acc) ==
    IF acc[4] = 0 /\ acc[3] = 0 /\ 2 * acc[2] < LongWord
    THEN Int2D(acc[2] * LongWord + acc[1])
    ELSE IF acc[4] = LongWord - 1 /\ acc[3] = LongWord - 1 /\ 2 * acc[2] >= LongWord
    THEN Int2D((acc[2] - LongWord) * LongWord + acc[1])
    ELSE Big(IF 2 * acc[4] >= LongWord THEN -1 ELSE 1)

RECURSIVE FactorialLoop(_, _, _)
\* for (long i = 2; i <= n; i++) acc *= i; an accumulator that has become
\* zero stays zero, and the rest of the loop is not unrolled
FactorialLoop(acc, i, n) ==
    IF i > n \/ acc = <<0, 0, 0, 0>> THEN acc
    ELSE FactorialLoop(MulLong(acc, i, 0), i + 1, n)

\* FunctionRegistry.Factorial
Factorial(x) ==
    IF x.k = "eps" THEN Ok(Int2D(1))
    ELSE IF x.k # "fin" THEN Ok(Real)
    ELSE LET n == RoundEven(x).n
         IN IF n < 0
            THEN Throw("ArgumentException", Msg("Factorial undefined for negative numbers."))
            ELSE Ok(LongToDouble(FactorialLoop(<<1, 0, 0, 0>>, 2, n)))

\* (long)x
ToLong(v) == IF v.k = "fin" THEN TruncDiv(v.n, v.d) ELSE 0

\* FunctionRegistry.Lcm
Lcm(a, b) ==
    IF a = 0 \/ b = 0 THEN 0
    ELSE LET p == TruncDiv(a, Gcd(a, b)) * b IN IF p < 0 THEN -p ELSE p

IsSquare(n) == \E r \in 0..n : r * r = n

SqrtInt(n) == CHOOSE r \in 0..n : r * r = n

\* Math.Sqrt
Sqrt(v) ==
    IF IsNaN(v) \/ SignOf(v) < 0 THEN NaN
    ELSE IF v.k = "eps" THEN Real
    ELSE IF v.k # "fin" THEN v
    ELSE IF IsSquare(v.n) /\ IsSquare(v.d) THEN Fin(SqrtInt(v.n), SqrtInt(v.d))
    ELSE Real

\* Math.Log, Math.Log10, Math.Log(x, 2): exact at 1, -Infinity at 0, NaN below
Log(v) ==
    IF IsNaN(v) \/ SignOf(v) < 0 THEN NaN
    ELSE IF SignOf(v) = 0 THEN NInf
    ELSE IF v = Int2D(1) THEN Int2D(0)
    ELSE IF v.k = "pinf" THEN PInf
    ELSE Real

\* Math.Sin, Tan, Asin, Atan, Sinh, Tanh: odd functions, exact at 0
OddFn(impl, v) ==
    IF IsNaN(v) THEN NaN
    ELSE IF v = Int2D(0) \/ v.k = "eps" THEN v
    ELSE IF IsInfinity(v) THEN CASE impl \in {"sin", "tan", "asin"} -> NaN
                                 [] impl = "sinh" -> v
                                 [] OTHER -> Real
    ELSE IF impl = "asin" /\ v.k = "fin" /\ Less(Int2D(1), DAbs(v)) THEN NaN
    ELSE Real

\* Math.Cos, Cosh, Exp, Acos
EvenFn(impl, v) ==
    IF IsNaN(v) THEN NaN
    ELSE IF impl = "acos"
    THEN IF v = Int2D(1) THEN Int2D(0)
         ELSE IF IsInfinity(v) \/ (v.k = "fin" /\ Less(Int2D(1), DAbs(v))) THEN NaN
         ELSE Real
    ELSE IF v = Int2D(0) \/ v.k = "eps" THEN Int2D(1)
    ELSE IF IsInfinity(v) THEN CASE impl = "cos" -> NaN
                                 [] impl = "exp" /\ v.k = "ninf" -> Int2D(0)
                                 [] OTHER -> PInf
    ELSE Real

\* Math.Sign: throws ArithmeticException on NaN
Sign(v) ==
    IF IsNaN(v)
    THEN Throw("ArithmeticException",
               Msg("Function does not accept floating point Not-a-Number values."))
    ELSE Ok(Int2D(SignOf(v)))

\* Math.Floor / Math.Ceiling
FloorCeil(impl, v) ==
    IF v.k = "eps" THEN Int2D(IF impl = "floor" THEN (IF v.n < 0 THEN -1 ELSE 0)
                              ELSE (IF v.n < 0 THEN 0 ELSE 1))
    ELSE IF v.k # "fin" THEN v
    ELSE IF impl = "floor" THEN Floor(v) ELSE Neg(Floor(Neg(v)))

\* f(One(a)) for the one-argument lambdas
Unary(impl, a) ==
    LET x == One(a) IN
    IF ~x.ok THEN x
    ELSE CASE impl \in {"sin", "tan", "asin", "atan", "sinh", "tanh"} -> Ok(OddFn(impl, x.v))
           [] impl \in {"cos", "cosh", "exp", "acos"} -> Ok(EvenFn(impl, x.v))
           [] impl \in {"ln", "log10", "log2"} -> Ok(Log(x.v))
           [] impl = "sqrt" -> Ok(Sqrt(x.v))
           [] impl \in {"floor", "ceil"} -> Ok(FloorCeil(impl, x.v))
           [] impl = "abs" -> Ok(DAbs(x.v))
           [] impl \in {"sign", "sgn"} -> Sign(x.v)
           [] impl = "fact" -> Factorial(x.v)

\* f(Arg(a,0), Arg(a,1)) for pow, mod, gcd, lcm: Arg(a,0) is evaluated first
Binary(impl, a) ==
    LET x == Arg(a, 0)
        y == Arg(a, 1)
    IN IF ~x.ok THEN x
       ELSE IF ~y.ok THEN y
       ELSE CASE impl = "pow" -> Ok(DPow(x.v, y.v))
              [] impl = "mod" -> Ok(DMod(x.v, y.v))
              [] impl = "gcd" -> Ok(Int2D(Gcd(ToLong(x.v), ToLong(y.v))))
              [] impl = "lcm" -> Ok(Int2D(Lcm(ToLong(x.v), ToLong(y.v))))

\* ToBool(Arg(a,0)) ? Arg(a,1) : Arg(a,2)
If(a) ==
    LET c == Arg(a, 0)
    IN IF ~c.ok THEN c
       ELSE IF ToBool(c.v) THEN Arg(a, 1) ELSE Arg(a, 2)

Std(a) ==
    LET v == Variance(a) IN IF v.ok THEN Ok(Sqrt(v.v)) ELSE v

\* impl(args): the lambda registered under the tag impl applied to the array a
Invoke(impl, a) ==
    CASE impl \in {"pow", "mod", "gcd", "lcm"} -> Binary(impl, a)
      [] impl = "round" -> Round(a)
      [] impl = "min" -> MinMax("min", a)
      [] impl = "max" -> MinMax("max", a)
      [] impl = "sum" -> Ok(Sum(a))
      [] impl = "prod" -> Product(a)
      [] impl \in {"mean", "avg"} -> Average(a)
      [] impl = "var" -> Variance(a)
      [] impl = "std" -> Std(a)
      [] impl = "if" -> If(a)
      [] OTHER -> Unary(impl, a)

(***************************************************************************)
(* UnitResolver.  One row per alias of the twelve alias dictionaries, in   *)
(* the order TryConvert consults them; n/d is the size of the unit in the  *)
(* base unit of its category (0 for the astronomical unit, whose size the  *)
(* model does not track).                                                  *)
(***************************************************************************)
UnitAliases ==
   <<
      [alias |-> <<"m">>, category |-> "Length", unit |-> "Meter", n |-> 1, d |-> 1],
      [alias |-> <<"m", "e", "t", "e", "r">>, category |-> "Length", unit |-> "Meter", n |-> 1, d |-> 1],
      [alias |-> <<"m", "e", "t", "r", "e">>, category |-> "Length", unit |-> "Meter", n |-> 1, d |-> 1],
      [alias |-> <<"m", "e", "t", "e", "r", "s">>, category |-> "Length", unit |-> "Meter", n |-> 1, d |-> 1],
      [alias |-> <<"c", "m">>, category |-> "Length", unit |-> "Centimeter", n |-> 1, d |-> 100],
      [alias |-> <<"c", "e", "n", "t", "i", "m", "e", "t", "e", "r">>, category |-> "Length", unit |-> "Centimeter", n |-> 1, d |-> 100],
      [alias |-> <<"c", "e", "n", "t", "i", "m", "e", "t", "r", "e">>, category |-> "Length", unit |-> "Centimeter", n |-> 1, d |-> 100],
      [alias |-> <<"m", "m">>, category |-> "Length", unit |-> "Millimeter", n |-> 1, d |-> 1000],
      [alias |-> <<"m", "i", "l", "l", "i", "m", "e", "t", "e", "r">>, category |-> "Length", unit |-> "Millimeter", n |-> 1, d |-> 1000],
      [alias |-> <<"m", "i", "l", "l", "i", "m", "e", "t", "r", "e">>, category |-> "Length", unit |-> "Millimeter", n |-> 1, d |-> 1000],
      [alias |-> <<"k", "m">>, category |-> "Length", unit |-> "Kilometer", n |-> 1000, d |-> 1],
      [alias |-> <<"k", "i", "l", "o", "m", "e", "t", "e", "r">>, category |-> "Length", unit |-> "Kilometer", n |-> 1000, d |-> 1],
      [alias |-> <<"k", "i", "l", "o", "m", "e", "t", "r", "e">>, category |-> "Length", unit |-> "Kilometer", n |-> 1000, d |-> 1],
      [alias |-> <<"k", "i", "l", "o", "m", "e", "t", "e", "r", "s">>, category |-> "Length", unit |-> "Kilometer", n |-> 1000, d |-> 1],
      [alias |-> <<"m", "i">>, category |-> "Length", unit |-> "Mile", n |-> 201168, d |-> 125],
      [alias |-> <<"m", "i", "l", "e">>, category |-> "Length", unit |-> "Mile", n |-> 201168, d |-> 125],
      [alias |-> <<"m", "i", "l", "e", "s">>, category |-> "Length", unit |-> "Mile", n |-> 201168, d |-> 125],
      [alias |-> <<"y", "d">>, category |-> "Length", unit |-> "Yard", n |-> 1143, d |-> 1250],
      [alias |-> <<"y", "a", "r", "d">>, category |-> "Length", unit |-> "Yard", n |-> 1143, d |-> 1250],
      [alias |-> <<"y", "a", "r", "d", "s">>, category |-> "Length", unit |-> "Yard", n |-> 1143, d |-> 1250],
      [alias |-> <<"f", "t">>, category |-> "Length", unit |-> "Foot", n |-> 381, d |-> 1250],
      [alias |-> <<"f", "o", "o", "t">>, category |-> "Length", unit |-> "Foot", n |-> 381, d |-> 1250],
      [alias |-> <<"f", "e", "e", "t">>, category |-> "Length", unit |-> "Foot", n |-> 381, d |-> 1250],
      [alias |-> <<"i", "n">>, category |-> "Length", unit |-> "Inch", n |-> 127, d |-> 5000],
      [alias |-> <<"i", "n", "c", "h">>, category |-> "Length", unit |-> "Inch", n |-> 127, d |-> 5000],
      [alias |-> <<"i", "n", "c", "h", "e", "s">>, category |-> "Length", unit |-> "Inch", n |-> 127, d |-> 5000],
      [alias |-> <<"a", "u">>, category |-> "Length", unit |-> "AstronomicalUnit", n |-> 0, d |-> 1],
      [alias |-> <<"a", "s", "t", "r", "o", "n", "o", "m", "i", "c", "a", "l">>, category |-> "Length", unit |-> "AstronomicalUnit", n |-> 0, d |-> 1],
      [alias |-> <<"a", "s", "t", "r", "o", "n", "o", "m", "i", "c", "a", "l", "_", "u", "n", "i", "t">>, category |-> "Length", unit |-> "AstronomicalUnit", n |-> 0, d |-> 1],
      [alias |-> <<"a", "s", "t", "r", "o", "n", "o", "m", "i", "c", "a", "l", "u", "n", "i", "t">>, category |-> "Length", unit |-> "AstronomicalUnit", n |-> 0, d |-> 1],
      [alias |-> <<"k", "g">>, category |-> "Mass", unit |-> "Kilogram", n |-> 1, d |-> 1],
      [alias |-> <<"k", "i", "l", "o", "g", "r", "a", "m">>, category |-> "Mass", unit |-> "Kilogram", n |-> 1, d |-> 1],
      [alias |-> <<"g">>, category |-> "Mass", unit |-> "Gram", n |-> 1, d |-> 1000],
      [alias |-> <<"g", "r", "a", "m">>, category |-> "Mass", unit |-> "Gram", n |-> 1, d |-> 1000],
      [alias |-> <<"g", "r", "a", "m", "s">>, category |-> "Mass", unit |-> "Gram", n |-> 1, d |-> 1000],
      [alias |-> <<"s">>, category |-> "Duration", unit |-> "Second", n |-> 1, d |-> 1],
      [alias |-> <<"s", "e", "c">>, category |-> "Duration", unit |-> "Second", n |-> 1, d |-> 1],
      [alias |-> <<"s", "e", "c", "o", "n", "d">>, category |-> "Duration", unit |-> "Second", n |-> 1, d |-> 1],
      [alias |-> <<"s", "e", "c", "o", "n", "d", "s">>, category |-> "Duration", unit |-> "Second", n |-> 1, d |-> 1],
      [alias |-> <<"m", "s">>, category |-> "Duration", unit |-> "Millisecond", n |-> 1, d |-> 1000],
      [alias |-> <<"m", "i", "l", "l", "i", "s", "e", "c", "o", "n", "d">>, category |-> "Duration", unit |-> "Millisecond", n |-> 1, d |-> 1000],
      [alias |-> <<"m", "i", "l", "l", "i", "s", "e", "c", "o", "n", "d", "s">>, category |-> "Duration", unit |-> "Millisecond", n |-> 1, d |-> 1000],
      [alias |-> <<"m", "i", "n">>, category |-> "Duration", unit |-> "Minute", n |-> 60, d |-> 1],
      [alias |-> <<"m", "i", "n", "u", "t", "e">>, category |-> "Duration", unit |-> "Minute", n |-> 60, d |-> 1],
      [alias |-> <<"m", "i", "n", "u", "t", "e", "s">>, category |-> "Duration", unit |-> "Minute", n |-> 60, d |-> 1],
      [alias |-> <<"h">>, category |-> "Duration", unit |-> "Hour", n |-> 3600, d |-> 1],
      [alias |-> <<"h", "r">>, category |-> "Duration", unit |-> "Hour", n |-> 3600, d |-> 1],
      [alias |-> <<"h", "o", "u", "r">>, category |-> "Duration", unit |-> "Hour", n |-> 3600, d |-> 1],
      [alias |-> <<"h", "o", "u", "r", "s">>, category |-> "Duration", unit |-> "Hour", n |-> 3600, d |-> 1],
      [alias |-> <<"k">>, category |-> "Temperature", unit |-> "Kelvin", n |-> 1, d |-> 1],
      [alias |-> <<"k", "e", "l", "v", "i", "n">>, category |-> "Temperature", unit |-> "Kelvin", n |-> 1, d |-> 1],
      [alias |-> <<"c">>, category |-> "Temperature", unit |-> "DegreeCelsius", n |-> 1, d |-> 1],
      [alias |-> <<"c", "e", "l", "s", "i", "u", "s">>, category |-> "Temperature", unit |-> "DegreeCelsius", n |-> 1, d |-> 1],
      [alias |-> <<"f">>, category |-> "Temperature", unit |-> "DegreeFahrenheit", n |-> 5, d |-> 9],
      [alias |-> <<"f", "a", "h", "r", "e", "n", "h", "e", "i", "t">>, category |-> "Temperature", unit |-> "DegreeFahrenheit", n |-> 5, d |-> 9],
      [alias |-> <<"a">>, category |-> "ElectricCurrent", unit |-> "Ampere", n |-> 1, d |-> 1],
      [alias |-> <<"a", "m", "p", "e", "r", "e">>, category |-> "ElectricCurrent", unit |-> "Ampere", n |-> 1, d |-> 1],
      [alias |-> <<"a", "m", "p">>, category |-> "ElectricCurrent", unit |-> "Ampere", n |-> 1, d |-> 1],
      [alias |-> <<"v">>, category |-> "ElectricPotential", unit |-> "Volt", n |-> 1, d |-> 1],
      [alias |-> <<"v", "o", "l", "t">>, category |-> "ElectricPotential", unit |-> "Volt", n |-> 1, d |-> 1],
      [alias |-> <<"v", "o", "l", "t", "s">>, category |-> "ElectricPotential", unit |-> "Volt", n |-> 1, d |-> 1],
      [alias |-> <<"o", "h", "m">>, category |-> "ElectricResistance", unit |-> "Ohm", n |-> 1, d |-> 1],
      [alias |-> <<"OMEGA">>, category |-> "ElectricResistance", unit |-> "Ohm", n |-> 1, d |-> 1],
      [alias |-> <<"l">>, category |-> "Volume", unit |-> "Liter", n |-> 1, d |-> 1],
      [alias |-> <<"l", "i", "t", "e", "r">>, category |-> "Volume", unit |-> "Liter", n |-> 1, d |-> 1],
      [alias |-> <<"l", "i", "t", "r", "e">>, category |-> "Volume", unit |-> "Liter", n |-> 1, d |-> 1],
      [alias |-> <<"m", "l">>, category |-> "Volume", unit |-> "Milliliter", n |-> 1, d |-> 1000],
      [alias |-> <<"m", "i", "l", "l", "i", "l", "i", "t", "e", "r">>, category |-> "Volume", unit |-> "Milliliter", n |-> 1, d |-> 1000],
      [alias |-> <<"m", "i", "l", "l", "i", "l", "i", "t", "r", "e">>, category |-> "Volume", unit |-> "Milliliter", n |-> 1, d |-> 1000],
      [alias |-> <<"p", "a">>, category |-> "Pressure", unit |-> "Pascal", n |-> 1, d |-> 1],
      [alias |-> <<"p", "a", "s", "c", "a", "l">>, category |-> "Pressure", unit |-> "Pascal", n |-> 1, d |-> 1],
      [alias |-> <<"b", "a", "r">>, category |-> "Pressure", unit |-> "Bar", n |-> 100000, d |-> 1],
      [alias |-> <<"n">>, category |-> "Force", unit |-> "Newton", n |-> 1, d |-> 1],
      [alias |-> <<"n", "e", "w", "t", "o", "n">>, category |-> "Force", unit |-> "Newton", n |-> 1, d |-> 1],
      [alias |-> <<"n", "e", "w", "t", "o", "n", "s">>, category |-> "Force", unit |-> "Newton", n |-> 1, d |-> 1],
      [alias |-> <<"j">>, category |-> "Energy", unit |-> "Joule", n |-> 1, d |-> 1],
      [alias |-> <<"j", "o", "u", "l", "e">>, category |-> "Energy", unit |-> "Joule", n |-> 1, d |-> 1],
      [alias |-> <<"j", "o", "u", "l", "e", "s">>, category |-> "Energy", unit |-> "Joule", n |-> 1, d |-> 1],
      [alias |-> <<"w">>, category |-> "Power", unit |-> "Watt", n |-> 1, d |-> 1],
      [alias |-> <<"w", "a", "t", "t">>, category |-> "Power", unit |-> "Watt", n |-> 1, d |-> 1],
      [alias |-> <<"w", "a", "t", "t", "s">>, category |-> "Power", unit |-> "Watt", n |-> 1, d |-> 1]
   >>

\* <Category>Aliases.TryGetValue(alias, out unit); the dictionaries ignore case
HasAlias(category, alias) ==
    \E i \in 1..Len(UnitAliases) :
        UnitAliases[i].category = category /\ EqualsIgnoreCase(UnitAliases[i].alias, alias)

AliasRow(category, alias) ==
    UnitAliases[CHOOSE i \in 1..Len(UnitAliases) :
        UnitAliases[i].category = category /\ EqualsIgnoreCase(UnitAliases[i].alias, alias)]

\* the quantities in the order TryConvert tries them
UnitCategories ==
    <<"Length", "Mass", "Duration", "Temperature", "ElectricCurrent", "ElectricPotential",
      "ElectricResistance", "Volume", "Pressure", "Force", "Energy", "Power">>

\* Temperature.From(value, unit).As(unit'): through kelvin
ConvertTemperature(value, from, to) ==
    LET kelvin == CASE from.unit = "Kelvin" -> value
                    [] from.unit = "DegreeCelsius" -> DAdd(value, Fin(27315, 100))
                    [] OTHER -> DMul(DAdd(value, Fin(45967, 100)), Fin(5, 9))
    IN CASE to.unit = "Kelvin" -> kelvin
         [] to.unit = "DegreeCelsius" -> DSub(kelvin, Fin(27315, 100))
         [] OTHER -> DSub(DMul(kelvin, Fin(9, 5)), Fin(45967, 100))

\* Quantity.From(value, fromUnit).As(toUnit)
ConvertQuantity(value, from, to) ==
    IF from.unit = to.unit THEN value
    ELSE IF from.category = "Temperature" THEN ConvertTemperature(value, from, to)
    ELSE IF from.n = 0 \/ to.n = 0 THEN DMul(value, Real)
    ELSE DDiv(DMul(value, Fin(from.n, from.d)), Fin(to.n, to.d))

\* TryConvert without the comparison of the two aliases that follows the
\* twelve category attempts
TryConvertCatalogOnly(value, fromUnit, toUnit) ==
    IF IsNullOrWhiteSpace(fromUnit) \/ IsNullOrWhiteSpace(toUnit)
    THEN [ok |-> FALSE, v |-> NaN]
    ELSE LET from == Trim(fromUnit)
             to == Trim(toUnit)
             cats == {k \in 1..Len(UnitCategories) :
                         HasAlias(UnitCategories[k], from) /\ HasAlias(UnitCategories[k], to)}
         IN IF cats # {}
            THEN LET c == UnitCategories[CHOOSE k \in cats : \A j \in cats : k <= j]
                 IN [ok |-> TRUE, v |-> ConvertQuantity(value, AliasRow(c, from), AliasRow(c, to))]
            ELSE [ok |-> FALSE, v |-> NaN]

\* UnitResolver.TryConvert: [ok, v]
TryConvert(value, fromUnit, toUnit) ==
    IF IsNullOrWhiteSpace(fromUnit) \/ IsNullOrWhiteSpace(toUnit)
    THEN [ok |-> FALSE, v |-> NaN]
    ELSE LET from == Trim(fromUnit)
             to == Trim(toUnit)
             cats == {k \in 1..Len(UnitCategories) :
                         HasAlias(UnitCategories[k], from) /\ HasAlias(UnitCategories[k], to)}
         IN IF cats # {}
            THEN LET c == UnitCategories[CHOOSE k \in cats : \A j \in cats : k <= j]
                 IN [ok |-> TRUE, v |-> ConvertQuantity(value, AliasRow(c, from), AliasRow(c, to))]
            ELSE IF EqualsIgnoreCase(from, to) THEN [ok |-> TRUE, v |-> value]
            ELSE [ok |-> FALSE, v |-> NaN]

(***************************************************************************)
(* Request and result models (FormulaModels.cs).  A MeasuredValue is       *)
(* [Id, HasValue, Value, Values, Unit]: Values = <<>> stands for a null or *)
(* empty list and Unit = <<>> for a null or empty unit; a Constant is      *)
(* [Id, Value].  The display names are left out.                           *)
(***************************************************************************)
MeasuredValue(id, hasValue, value, values, unit) ==
    [Id |-> id, HasValue |-> hasValue, Value |-> value, Values |-> values, Unit |-> unit]

Constant(id, value) == [Id |-> id, Value |-> value]

NullString == [null |-> TRUE, text |-> <<>>]

String(s) == [null |-> FALSE, text |-> s]

\* new ValidationResult { Source = "Backend" }
NewValidationResult ==
    [IsValid |-> FALSE, Error |-> NoMsg, Result |-> NullDouble,
     EvaluatedFormula |-> NullString, Source |-> "Backend"]

(***************************************************************************)
(* Dictionary<string, T>(StringComparer.OrdinalIgnoreCase): a sequence of  *)
(* [key, val] in insertion order; HashSet<string> likewise a sequence of   *)
(* keys.  Enumeration follows insertion order.                             *)
(***************************************************************************)
ContainsKey(dict, key) == \E i \in 1..Len(dict) : EqualsIgnoreCase(dict[i].key, key)

Lookup(dict, key) == dict[CHOOSE i \in 1..Len(dict) : EqualsIgnoreCase(dict[i].key, key)].val

\* dict[key] = val: an existing entry keeps its key and position
SetItem(dict, key, val) ==
    IF ContainsKey(dict, key)
    THEN [i \in 1..Len(dict) |->
            IF EqualsIgnoreCase(dict[i].key, key) THEN [key |-> dict[i].key, val |-> val]
            ELSE dict[i]]
    ELSE Append(dict, [key |-> key, val |-> val])

DictValues(dict) == [i \in 1..Len(dict) |-> dict[i].val]

SetContains(set, name) == \E i \in 1..Len(set) : EqualsIgnoreCase(set[i], name)

\* List.Add in the place of HashSet.Add
ListAdd(set, name) == Append(set, name)

\* HashSet.Add
SetAdd(set, name) == IF SetContains(set, name) THEN set ELSE Append(set, name)

(***************************************************************************)
(* SymbolCollector                                                         *)
(***************************************************************************)
NewSymbolCollector ==
    [Variables |-> <<>>, VariablesWithUnit |-> <<>>, VariablesWithIndex |-> <<>>,
     VariablesWithoutIndex |-> <<>>, Constants |-> <<>>]

\* SymbolCollector.VisitVarRef.  It returns without visiting the children of
\* the context, so the expressions inside index suffixes are not traversed.
VisitVarRef(c, node) ==
    LET name == node.text
        hasUnit == \E i \in 1..Len(node.kids) : node.kids[i].t = "unit"
        hasIndex == \E i \in 1..Len(node.kids) : node.kids[i].t = "index"
    IN [c EXCEPT
          !.Variables = SetAdd(@, name),
          !.VariablesWithUnit = IF hasUnit THEN SetAdd(@, name) ELSE @,
          !.VariablesWithIndex = IF hasIndex THEN SetAdd(@, name) ELSE @,
          !.VariablesWithoutIndex = IF hasIndex THEN @ ELSE SetAdd(@, name)]

\* SymbolCollector.VisitConstRef
VisitConstRef(c, node) == [c EXCEPT !.Constants = SetAdd(@, node.text)]

RECURSIVE Collect(_, _)
RECURSIVE CollectChildren(_, _, _)
\* collector.Visit(node): the overridden visits for varRef and constRef, the
\* generated VisitChildren for every other context
Collect(c, node) ==
    IF node.t = "varRef" THEN VisitVarRef(c, node)
    ELSE IF node.t = "constRef" THEN VisitConstRef(c, node)
    ELSE CollectChildren(c, node.kids, 1)

CollectChildren(c, kids, i) ==
    IF i > Len(kids) THEN c ELSE CollectChildren(Collect(c, kids[i]), kids, i + 1)

(***************************************************************************)
(* FormulaValidationService helpers                                        *)
(***************************************************************************)
\* FormulaValidationService.NormalizeVariableId
NormalizeVariableId(id) ==
    LET trimmed == Trim(id)
    IN IF Len(trimmed) = 0 THEN <<>>
       ELSE IF StartsWith(trimmed, "$") THEN Trim(TrimStart(trimmed, {"$"}))
       ELSE trimmed

\* FormulaValidationService.NormalizeConstantId
NormalizeConstantId(id) ==
    LET trimmed == Trim(id)
    IN IF StartsWith(trimmed, "#") THEN trimmed ELSE <<"#">> \o trimmed

HasVector(mv) == Len(mv.Values) > 0

RECURSIVE BuildMeasuredLookupFrom(_, _, _)
BuildMeasuredLookupFrom(measuredValues, i, lookup) ==
    IF i > Len(measuredValues) THEN [lookup |-> lookup, error |-> NoMsg]
    ELSE
    LET mv == measuredValues[i]
        normalizedId == NormalizeVariableId(mv.Id)
    IN IF normalizedId = <<>>
       THEN [lookup |-> lookup, error |-> Msg("Measured value id cannot be empty.")]
       ELSE IF ContainsKey(lookup, normalizedId)
       THEN [lookup |-> lookup, error |-> MsgArg("Duplicate variable: $<name>", normalizedId)]
       ELSE IF mv.HasValue /\ HasVector(mv)
       THEN [lookup |-> lookup,
             error |-> MsgArg("Variable '$<name>' cannot define both 'value' and 'values'.", normalizedId)]
       ELSE IF ~mv.HasValue /\ ~HasVector(mv)
       THEN [lookup |-> lookup,
             error |-> MsgArg("Variable '$<name>' must define either 'value' or 'values'.", normalizedId)]
       ELSE BuildMeasuredLookupFrom(measuredValues, i + 1, SetItem(lookup, normalizedId, mv))

\* FormulaValidationService.BuildMeasuredLookup: [lookup, error]
BuildMeasuredLookup(measuredValues) == BuildMeasuredLookupFrom(measuredValues, 1, <<>>)

\* the local function AddOrReplace of MergeConstants
AddOrReplace(lookup, constant) ==
    LET normalizedId == NormalizeConstantId(constant.Id)
    IN IF normalizedId = <<"#">> THEN lookup
       ELSE SetItem(lookup, TrimStart(normalizedId, {"#"}), Constant(normalizedId, constant.Value))

RECURSIVE AddAll(_, _)
\* one foreach loop of MergeConstants over a list of constants
AddAll(lookup, constants) ==
    IF constants = <<>> THEN lookup
    ELSE AddAll(AddOrReplace(lookup, Head(constants)), Tail(constants))

\* MergeConstants with the repository's constants added last
MergeConstantsBaseLast(baseConstants, overrides) ==
    AddAll(AddAll(<<>>, overrides), baseConstants)

\* FormulaValidationService.MergeConstants
MergeConstants(baseConstants, overrides) ==
    AddAll(AddAll(<<>>, baseConstants), overrides)

(***************************************************************************)
(* The semantic checks of ValidateFormula.  Each is one foreach loop of    *)
(* the method and yields the message it returns with, or NoMsg when the    *)
(* loop runs to its end.                                                   *)
(***************************************************************************)
\* the first element of the sequence set whose flag is set, as a sequence
FirstWhere(set, flags) ==
    IF \E i \in 1..Len(set) : flags[i]
    THEN <<set[CHOOSE i \in 1..Len(set) : flags[i] /\ \A j \in 1..(i - 1) : ~flags[j]]>>
    ELSE <<>>

CheckUndefinedVariable(collector, measuredLookup) ==
    LET bad(v) == ~ContainsKey(measuredLookup, v)
        hit == FirstWhere(collector.Variables, [i \in 1..Len(collector.Variables) |-> bad(collector.Variables[i])])
    IN IF hit = <<>> THEN NoMsg ELSE MsgArg("Undefined variable: $<name>", hit[1])

CheckScalarWithIndex(collector, measuredLookup) ==
    LET bad(v) == ~ContainsKey(measuredLookup, v) \/ ~HasVector(Lookup(measuredLookup, v))
        hit == FirstWhere(collector.VariablesWithIndex, [i \in 1..Len(collector.VariablesWithIndex) |-> bad(collector.VariablesWithIndex[i])])
    IN IF hit = <<>> THEN NoMsg
       ELSE MsgArg("Variable '<name>' is scalar but is used with an index.", hit[1])

CheckMixedIndexUse(collector) ==
    LET bad(v) == SetContains(collector.VariablesWithoutIndex, v)
        hit == FirstWhere(collector.VariablesWithIndex, [i \in 1..Len(collector.VariablesWithIndex) |-> bad(collector.VariablesWithIndex[i])])
    IN IF hit = <<>> THEN NoMsg
       ELSE MsgArg("Variable '<name>' is used both with and without an index.", hit[1])

CheckVectorWithoutIndex(collector, measuredLookup) ==
    LET bad(v) == ContainsKey(measuredLookup, v) /\ HasVector(Lookup(measuredLookup, v))
        hit == FirstWhere(collector.VariablesWithoutIndex, [i \in 1..Len(collector.VariablesWithoutIndex) |-> bad(collector.VariablesWithoutIndex[i])])
    IN IF hit = <<>> THEN NoMsg
       ELSE MsgArg("Variable '<name>' is non-scalar. Use an index like '$<name>[i]'.", hit[1])

CheckUndefinedConstant(collector, constantLookup) ==
    LET bad(c) == ~ContainsKey(constantLookup, c)
        hit == FirstWhere(collector.Constants, [i \in 1..Len(collector.Constants) |-> bad(collector.Constants[i])])
    IN IF hit = <<>> THEN NoMsg ELSE MsgArg("Undefined constant: #<name>", hit[1])

CheckUnitWithoutUnit(collector, measuredLookup) ==
    LET bad(v) == IsNullOrWhiteSpace(Lookup(measuredLookup, v).Unit)
        hit == FirstWhere(collector.VariablesWithUnit, [i \in 1..Len(collector.VariablesWithUnit) |-> bad(collector.VariablesWithUnit[i])])
    IN IF hit = <<>> THEN NoMsg
       ELSE MsgArg("Variable '<name>' has no unit defined but is used with a unit suffix.", hit[1])

\* the four loops with the mixed-use loop ahead of the scalar-index loop
VariableChecksMixedFirst(collector, measuredLookup) ==
    LET e1 == CheckUndefinedVariable(collector, measuredLookup)
        e2 == CheckScalarWithIndex(collector, measuredLookup)
        e3 == CheckMixedIndexUse(collector)
        e4 == CheckVectorWithoutIndex(collector, measuredLookup)
    IN IF e1 # NoMsg THEN e1
       ELSE IF e3 # NoMsg THEN e3
       ELSE IF e2 # NoMsg THEN e2
       ELSE e4

\* the four loops over the measured lookup, in the order ValidateFormula runs
\* them: the message of the first loop that returns, NoMsg when all run to
\* their end
VariableChecks(collector, measuredLookup) ==
    LET e1 == CheckUndefinedVariable(collector, measuredLookup)
        e2 == CheckScalarWithIndex(collector, measuredLookup)
        e3 == CheckMixedIndexUse(collector)
        e4 == CheckVectorWithoutIndex(collector, measuredLookup)
    IN IF e1 # NoMsg THEN e1
       ELSE IF e2 # NoMsg THEN e2
       ELSE IF e3 # NoMsg THEN e3
       ELSE e4

\* the two loops that follow MergeConstants
ConstantAndUnitChecks(collector, measuredLookup, constantLookup) ==
    LET e5 == CheckUndefinedConstant(collector, constantLookup)
        e6 == CheckUnitWithoutUnit(collector, measuredLookup)
    IN IF e5 # NoMsg THEN e5 ELSE e6

(***************************************************************************)
(* EvalVisitor                                                             *)
(***************************************************************************)
\* EvalVisitor.NormalizeVariableId / NormalizeConstantId with prefix "$" / "#"
EvalNormalizeId(id, prefix) ==
    LET trimmed == Trim(id)
    IN Trim(IF StartsWith(trimmed, prefix) THEN TrimStart(trimmed, {prefix}) ELSE trimmed)

RECURSIVE BuildMapFrom(_, _, _, _, _)
\* the loop shared by BuildMeasuredMap and BuildConstantMap: [ok, map, msg]
BuildMapFrom(values, i, lookup, prefix, duplicateText) ==
    IF i > Len(values) THEN [ok |-> TRUE, map |-> lookup, msg |-> NoMsg]
    ELSE LET key == EvalNormalizeId(values[i].Id, prefix)
         IN IF key = <<>> THEN BuildMapFrom(values, i + 1, lookup, prefix, duplicateText)
            ELSE IF ContainsKey(lookup, key)
            THEN [ok |-> FALSE, map |-> lookup, msg |-> MsgArg(duplicateText, key)]
            ELSE BuildMapFrom(values, i + 1, SetItem(lookup, key, values[i]), prefix, duplicateText)

\* EvalVisitor.BuildMeasuredMap
BuildMeasuredMap(values) == BuildMapFrom(values, 1, <<>>, "$", "Duplicate variable: $<name>")

\* EvalVisitor.BuildConstantMap
BuildConstantMap(values) == BuildMapFrom(values, 1, <<>>, "#", "Duplicate constant: #<name>")

InvalidOperation(msg) == Throw("InvalidOperationException", msg)

\* the tolerance of NormalizeIndex, 1e-9, as 1 / IndexToleranceInverse
IndexToleranceInverse == 1000000000

\* EvalVisitor.NormalizeIndex: an outcome whose value is the int index
NormalizeIndex(rawIndex, variableName) ==
    IF IsNaN(rawIndex) \/ IsInfinity(rawIndex)
    THEN InvalidOperation(MsgArg("Index for variable '<name>' must evaluate to a finite number.", variableName))
    ELSE IF rawIndex.k = "eps" THEN Ok(Int2D(0))
    ELSE IF Untracked(rawIndex)
    THEN \* for a value beyond the range of int the cast (int)Math.Round(rawIndex)
         \* yields an unspecified int; whichever it is, it differs from
         \* rawIndex by more than the tolerance
         InvalidOperation(MsgArg("Index for variable '<name>' must be an integer.", variableName))
    ELSE LET rounded == RoundEven(rawIndex)
             diff == DAbs(DSub(rawIndex, rounded))
         IN IF diff.n > 0 /\ (diff.d \div diff.n) < IndexToleranceInverse
            THEN InvalidOperation(MsgArg("Index for variable '<name>' must be an integer.", variableName))
            ELSE IF rounded.n < 0
            THEN InvalidOperation(MsgArg("Index for variable '<name>' must be non-negative.", variableName))
            ELSE Ok(rounded)

\* the comparison of VisitCmp for one operator text
Compare(op, value, rhs) ==
    LET diff == DAbs(DSub(value, rhs))
        equal == diff.k = "fin" /\ diff.n = 0
    IN CASE op = <<">">> -> DLess(rhs, value)
         [] op = <<"<">> -> DLess(value, rhs)
         [] op = <<">", "=">> -> DLess(rhs, value) \/ (~IsNaN(value) /\ value = rhs)
         [] op = <<"<", "=">> -> DLess(value, rhs) \/ (~IsNaN(value) /\ value = rhs)
         [] op = <<"=", "=">> -> equal
         [] op = <<"!", "=">> -> diff.k \in {"fin", "real", "eps", "pinf"} /\ ~equal

\* ApplyOperator with a comparison that yields its right operand when it holds
ApplyOperatorKeepingOperand(t, op, value, rhs) ==
    CASE t = "cmp" -> IF Compare(op, value, rhs) THEN rhs ELSE Int2D(0)
      [] t = "add" -> IF op = <<"+">> THEN DAdd(value, rhs) ELSE DSub(value, rhs)
      [] t = "mul" -> IF op = <<"*">> THEN DMul(value, rhs)
                      ELSE IF op = <<"/">> THEN DDiv(value, rhs)
                      ELSE DMod(value, rhs)
      [] t = "pow" -> DPow(value, rhs)

\* one step of the loops of VisitCmp, VisitAdd, VisitMul and VisitPow
ApplyOperator(t, op, value, rhs) ==
    CASE t = "cmp" -> IF Compare(op, value, rhs) THEN Int2D(1) ELSE Int2D(0)
      [] t = "add" -> IF op = <<"+">> THEN DAdd(value, rhs) ELSE DSub(value, rhs)
      [] t = "mul" -> IF op = <<"*">> THEN DMul(value, rhs)
                      ELSE IF op = <<"/">> THEN DDiv(value, rhs)
                      ELSE DMod(value, rhs)
      [] t = "pow" -> DPow(value, rhs)

RECURSIVE Visit(_, _, _)
RECURSIVE VisitOperands(_, _, _, _, _)
RECURSIVE VisitArgs(_, _, _, _, _)
RECURSIVE VisitSuffixes(_, _, _, _, _, _)

\* the loop evaluated from the right: value op (the rest of the chain)
VisitOperandsRightToLeft(node, i, value, measured, constants) ==
    IF i > Len(node.kids) THEN Ok(value)
    ELSE LET rhs == Visit(node.kids[i], measured, constants)
             rest == VisitOperands(node, i + 1, rhs.v, measured, constants)
         IN IF ~rhs.ok THEN rhs
            ELSE IF ~rest.ok THEN rest
            ELSE Ok(ApplyOperator(node.t, node.ops[i - 1], value, rest.v))

\* VisitCmp / VisitAdd / VisitMul / VisitPow from operand i on, value so far
VisitOperands(node, i, value, measured, constants) ==
    IF i > Len(node.kids) THEN Ok(value)
    ELSE LET rhs == Visit(node.kids[i], measured, constants)
         IN IF ~rhs.ok THEN rhs
            ELSE VisitOperands(node, i + 1, ApplyOperator(node.t, node.ops[i - 1], value, rhs.v),
                               measured, constants)

\* the argument loop of VisitFuncPrimary: [ok, args] or the exception
VisitArgs(kids, i, args, measured, constants) ==
    IF i > Len(kids) THEN [ok |-> TRUE, args |-> args, exc |-> "", msg |-> NoMsg]
    ELSE LET a == Visit(kids[i], measured, constants)
         IN IF ~a.ok THEN [ok |-> FALSE, args |-> args, exc |-> a.exc, msg |-> a.msg]
            ELSE VisitArgs(kids, i + 1, Append(args, a.v), measured, constants)

\* the suffix loop of VisitVarPrimary: requestedIndex is <<>> or <<int>>,
\* requestedUnit is a NullString or String
VisitSuffixes(node, i, requestedIndex, requestedUnit, measured, constants) ==
    IF i > Len(node.kids)
    THEN [ok |-> TRUE, index |-> requestedIndex, unit |-> requestedUnit, exc |-> "", msg |-> NoMsg]
    ELSE LET suffix == node.kids[i] IN
    IF suffix.t = "index"
    THEN IF requestedIndex # <<>>
         THEN [ok |-> FALSE, index |-> requestedIndex, unit |-> requestedUnit,
               exc |-> "InvalidOperationException",
               msg |-> MsgArg("Variable '<name>' is used with multiple indices; only one dimension is supported.",
                              node.text)]
         ELSE LET rawIndex == Visit(suffix.kids[1], measured, constants)
                  idx == IF rawIndex.ok THEN NormalizeIndex(rawIndex.v, node.text) ELSE rawIndex
              IN IF ~idx.ok
                 THEN [ok |-> FALSE, index |-> requestedIndex, unit |-> requestedUnit,
                       exc |-> idx.exc, msg |-> idx.msg]
                 ELSE VisitSuffixes(node, i + 1, <<idx.v.n>>, requestedUnit, measured, constants)
    ELSE VisitSuffixes(node, i + 1, requestedIndex, String(suffix.text), measured, constants)

\* EvalVisitor.VisitVarPrimary
VisitVarPrimary(node, measured, constants) ==
    LET name == node.text IN
    IF ~ContainsKey(measured, name)
    THEN InvalidOperation(MsgArg("Undefined variable: $<name>", name))
    ELSE
    LET measuredValue == Lookup(measured, name)
        sx == VisitSuffixes(node, 1, <<>>, NullString, measured, constants)
    IN
    IF ~sx.ok THEN Throw(sx.exc, sx.msg)
    ELSE IF HasVector(measuredValue) /\ sx.index = <<>>
    THEN InvalidOperation(MsgArg("Variable '<name>' is non-scalar. Use an index like '$<name>[i]'.", name))
    ELSE IF HasVector(measuredValue) /\ sx.index[1] >= Len(measuredValue.Values)
    THEN InvalidOperation(MsgWith("Index <n> is out of range for variable '<name>'.",
                                  <<name>>, <<sx.index[1]>>))
    ELSE IF ~HasVector(measuredValue) /\ ~measuredValue.HasValue
    THEN InvalidOperation(MsgArg("Variable '<name>' has no value defined.", name))
    ELSE IF ~HasVector(measuredValue) /\ sx.index # <<>>
    THEN InvalidOperation(MsgArg("Variable '<name>' is scalar but used with an index.", name))
    ELSE
    LET extractedValue == IF HasVector(measuredValue) THEN measuredValue.Values[sx.index[1] + 1]
                          ELSE measuredValue.Value
        fromUnit == Trim(measuredValue.Unit)
    IN
    IF sx.unit.null THEN Ok(extractedValue)
    ELSE IF IsNullOrWhiteSpace(fromUnit)
    THEN InvalidOperation(MsgWith("Variable '<name>' has no unit defined but is used with '.<unit>'.",
                                  <<name, sx.unit.text>>, <<>>))
    ELSE LET converted == TryConvert(extractedValue, fromUnit, sx.unit.text)
         IN IF ~converted.ok
            THEN InvalidOperation(MsgWith("Cannot convert variable '<name>' from '<u1>' to '<u2>'.",
                                          <<name, fromUnit, sx.unit.text>>, <<>>))
            ELSE Ok(converted.v)

\* EvalVisitor.VisitConstPrimary
VisitConstPrimary(node, constants) ==
    IF ~ContainsKey(constants, node.text)
    THEN InvalidOperation(MsgArg("Undefined constant: #<name>", node.text))
    ELSE Ok(Lookup(constants, node.text).Value)

\* VisitFuncPrimary with an `if` that evaluates its condition and then the
\* selected branch only
VisitFuncPrimaryLazyIf(node, measured, constants) ==
    IF ~HasFunction(node.text)
    THEN InvalidOperation(MsgArg("Unknown function: <name>", node.text))
    ELSE IF FunctionImpl(node.text) = "if" /\ Len(node.kids) = 3
    THEN LET cond == Visit(node.kids[1], measured, constants)
         IN IF ~cond.ok THEN cond
            ELSE IF ToBool(cond.v) THEN Visit(node.kids[2], measured, constants)
            ELSE Visit(node.kids[3], measured, constants)
    ELSE LET args == VisitArgs(node.kids, 1, <<>>, measured, constants)
         IN IF ~args.ok THEN Throw(args.exc, args.msg)
            ELSE Invoke(FunctionImpl(node.text), args.args)

\* EvalVisitor.VisitFuncPrimary
VisitFuncPrimary(node, measured, constants) ==
    IF ~HasFunction(node.text)
    THEN InvalidOperation(MsgArg("Unknown function: <name>", node.text))
    ELSE LET args == VisitArgs(node.kids, 1, <<>>, measured, constants)
         IN IF ~args.ok THEN Throw(args.exc, args.msg)
            ELSE Invoke(FunctionImpl(node.text), args.args)

\* EvalVisitor.Visit, dispatching on the context type
Visit(node, measured, constants) ==
    CASE node.t = "number" -> Ok(ParseDouble(node.text))
      [] node.t = "varRef" -> VisitVarPrimary(node, measured, constants)
      [] node.t = "constRef" -> VisitConstPrimary(node, constants)
      [] node.t = "funcCall" -> VisitFuncPrimary(node, measured, constants)
      [] node.t \in {"paren", "formula", "unaryPlus"} -> Visit(node.kids[1], measured, constants)
      [] node.t = "unaryMinus" ->
            LET u == Visit(node.kids[1], measured, constants)
            IN IF u.ok THEN Ok(Neg(u.v)) ELSE u
      [] OTHER ->
            LET first == Visit(node.kids[1], measured, constants)
            IN IF ~first.ok THEN first
               ELSE VisitOperands(node, 2, first.v, measured, constants)

\* Visit(tree) of an evaluator whose constructor built the two maps
VisitWith(tree, measured, constants) ==
    IF ~measured.ok THEN InvalidOperation(measured.msg)
    ELSE IF ~constants.ok THEN InvalidOperation(constants.msg)
    ELSE Visit(tree, measured.map, constants.map)

\* new EvalVisitor(mvs, consts).Visit(tree)
Evaluate(tree, mvs, consts) == VisitWith(tree, BuildMeasuredMap(mvs), BuildConstantMap(consts))

(***************************************************************************)
(* FormulaValidationService.ValidateFormula                                *)
(***************************************************************************)
Fail(msg) == [NewValidationResult EXCEPT !.Error = msg]

\* the catch clauses with a fallback that swallows the exception
CatchSwallowing(outcome) ==
    IF outcome.exc = "InvalidOperationException" THEN Fail(outcome.msg)
    ELSE NewValidationResult

\* the two catch clauses
Catch(outcome) ==
    IF outcome.exc = "InvalidOperationException" THEN Fail(outcome.msg)
    ELSE Fail([outcome.msg EXCEPT !.prefix = "Validation error: "])

\* the state of ValidateFormula when it returns: the envelope, and the
\* locals collector and constantLookup (empty when not yet assigned)
Returned(result, collector, constantLookup) ==
    [result |-> result, collector |-> collector, constantLookup |-> constantLookup]

\* "if (error is not null) { result.Error = error; return result; }"
\* followed by the rest of the method
ReturnIf(error, collector, constantLookup, rest) ==
    IF error # NoMsg THEN Returned(Fail(error), collector, constantLookup) ELSE rest

\* Complete without the return on an infinite value
CompleteAcceptingInfinity(input, value, collector, constantLookup) ==
    IF ~value.ok THEN Returned(Catch(value), collector, constantLookup)
    ELSE IF IsNaN(value.v)
    THEN Returned(Fail(Msg("Result is not a real number (NaN)")), collector, constantLookup)
    ELSE Returned([NewValidationResult EXCEPT !.IsValid = TRUE, !.Result = value.v,
                                              !.EvaluatedFormula = String(input)],
                  collector, constantLookup)

\* the end of ValidateFormula from the outcome of evaluator.Visit(tree) on:
\* the catch clauses, the NaN and infinity returns and the success block
Complete(input, value, collector, constantLookup) ==
    IF ~value.ok THEN Returned(Catch(value), collector, constantLookup)
    ELSE IF IsNaN(value.v)
    THEN Returned(Fail(Msg("Result is not a real number (NaN)")), collector, constantLookup)
    ELSE IF IsInfinity(value.v)
    THEN Returned(Fail(Msg("Result is infinity - division by zero or overflow")),
                  collector, constantLookup)
    ELSE Returned([NewValidationResult EXCEPT !.IsValid = TRUE, !.Result = value.v,
                                              !.EvaluatedFormula = String(input)],
                  collector, constantLookup)

\* CheckAndEvaluate without the return on measuredError
CheckAndEvaluateIgnoringMeasuredError(input, tree, collector, measured, constantLookup) ==
    ReturnIf(VariableChecks(collector, measured.lookup), collector, <<>>,
    ReturnIf(ConstantAndUnitChecks(collector, measured.lookup, constantLookup),
             collector, constantLookup,
    Complete(input, Evaluate(tree, DictValues(measured.lookup), DictValues(constantLookup)),
             collector, constantLookup)))

\* the semantic checks and the evaluation, from the locals collector,
\* measuredLookup with measuredError, and constantLookup
CheckAndEvaluate(input, tree, collector, measured, constantLookup) ==
    ReturnIf(measured.error, collector, <<>>,
    ReturnIf(VariableChecks(collector, measured.lookup), collector, <<>>,
    ReturnIf(ConstantAndUnitChecks(collector, measured.lookup, constantLookup),
             collector, constantLookup,
    Complete(input, Evaluate(tree, DictValues(measured.lookup), DictValues(constantLookup)),
             collector, constantLookup))))

\* the part of ValidateFormula that follows a parse without syntax errors
ValidateTree(input, tree, request, predefined) ==
    CheckAndEvaluate(input, tree, Collect(NewSymbolCollector, tree),
                     BuildMeasuredLookup(request.MeasuredValues),
                     MergeConstants(predefined, request.Constants))

\* the parse with BuildMeasuredLookup moved ahead of it
ParseAndValidateNormalizingFirst(input, tokens, request, predefined) ==
    ReturnIf(BuildMeasuredLookup(request.MeasuredValues).error, NewSymbolCollector, <<>>,
    ReturnIf(ListenerError(NoMsg, SyntaxErrorReports(tokens)), NewSymbolCollector, <<>>,
    ValidateTree(input, ParseFormula(tokens).node, request, predefined)))

\* the part of ValidateFormula from parser.formula() on, for the tokens of
\* the trimmed input
ParseAndValidate(input, tokens, request, predefined) ==
    ReturnIf(ListenerError(NoMsg, SyntaxErrorReports(tokens)), NewSymbolCollector, <<>>,
    ValidateTree(input, ParseFormula(tokens).node, request, predefined))

\* FormulaValidationService.ValidateFormula, with the locals it returns with
ValidateFormula(request, predefined) ==
    IF IsNullOrWhiteSpace(request.Formula)
    THEN Returned(Fail(Msg("Formula cannot be empty")), NewSymbolCollector, <<>>)
    ELSE ParseAndValidate(Trim(request.Formula), Lex(Trim(request.Formula)).tokens,
                          request, predefined)

(***************************************************************************)
(* Requests.  The formulas are a catalog of texts and every text of at     *)
(* most MaxFormulaLen characters over FormulaAlphabet; the measured values *)
(* and constants are lists of at most MaxMeasured / MaxConstants entries.  *)
(***************************************************************************)
MaxFormulaLen == 3

MaxMeasured == 2

MaxConstants == 2

FormulaAlphabet == {"1", "a", "$", "#", "+", "(", ")", "[", "]", ".", "@", " "}

FormulaCatalog ==
    {
      <<"2", " ", "+", " ", "2">>,
      <<" ", "2", "+", "2", " ">>,
      <<"2", "^", "3", "^", "2">>,
      <<"2", "^", "3", "^", "0">>,
      <<"2", "^", "2", "^", "3", "^", "2">>,
      <<"2", "^", "(", "3", "^", "2", ")">>,
      <<"1", " ", "+", " ", "2", "^", "3", "^", "2", " ", "*", " ", "2">>,
      <<"-", "2", "^", "2">>,
      <<"2", "^", "3">>,
      <<"3", " ", ">", " ", "2", " ", ">", " ", "1">>,
      <<"2", " ", "=", "=", " ", "2", " ", "=", "=", " ", "2">>,
      <<"5", " ", ">", "=", " ", "5", " ", "!", "=", " ", "0">>,
      <<"1", " ", "<", " ", "2", " ", "+", " ", "3">>,
      <<"0", "/", "0", " ", "<", " ", "1", " ", "<", "=", " ", "0">>,
      <<"$", "a", " ", ">", " ", "#", "k", " ", ">", " ", "0">>,
      <<"s", "q", "r", "t", "(", "1", "6", ")">>,
      <<"1", " ", "/", " ", "0">>,
      <<"1", "/", "(", "1", "/", "0", ")">>,
      <<"(", "1", "/", "0", ")", " ", ">", " ", "5">>,
      <<"0", "-", "1", "/", "0">>,
      <<"1", "/", "0", " ", "-", " ", "1", "/", "0">>,
      <<"i", "f", "(", "0", "/", "0", ",", " ", "1", ",", " ", "2", ")">>,
      <<"0", " ", "/", " ", "0">>,
      <<"1", " ", "<", " ", "2", " ", "<", " ", "3">>,
      <<"$", "a">>,
      <<"$", "A", " ", "+", " ", "1">>,
      <<"$", "V", "[", "$", "A", "]">>,
      <<"$", "v", "[", "$", "a", "[", "0", "]", "]">>,
      <<"$", "a", "[", "0", "]", " ", "+", " ", "$", "v", "[", "$", "a", "[", "0", "]", "]">>,
      <<"1", " ", "+", " ", "$", "v", "[", "1", " ", "-", " ", "$", "a", "[", "1", "]", "]">>,
      <<"$", "v", "[", "#", "K", " ", "-", " ", "$", "A", "[", "0", "]", "]">>,
      <<"$", "a", ".", "k", "m">>,
      <<"$", "v", "[", "1", "]">>,
      <<"$", "v", "[", "0", "]", " ", "+", " ", "$", "v", "[", "1", "]">>,
      <<"$", "v", "[", "2", "]">>,
      <<"$", "v", "[", "$", "a", "]">>,
      <<"$", "v", "[", "0", "]", ".", "k", "m">>,
      <<"$", "v", "[", "0", "]", ".", "k", "m", ".", "m">>,
      <<"$", "v", "[", "0", "]", " ", "+", " ", "$", "V", ".", "k", "m", " ", "+", " ", "#", "k">>,
      <<"$", "a", ".", "k", "m", ".", "m">>,
      <<"$", "v", "[", "0", "]", "[", "1", "]">>,
      <<"$", "v", "[", "1", "e", "1", "0", "]">>,
      <<"$", "v", "[", "-", "1", "e", "1", "0", "]">>,
      <<"$", "v", "[", "0", "-", "1", "]">>,
      <<"$", "v", "[", "0", ".", "5", "]">>,
      <<"$", "v", "[", "3", "/", "2", "]">>,
      <<"$", "v", "[", "1", "/", "0", "]">>,
      <<"#", "k">>,
      <<"#", "K", " ", "*", " ", "2">>,
      <<"#", "p", "i">>,
      <<"#", "P", "I", " ", "+", " ", "#", "k">>,
      <<"i", "f", "(", "$", "a", " ", ">", " ", "#", "k", ",", " ", "1", ",", " ", "0", ")">>,
      <<"$", "a", " ", "+", " ", "$", "a", "[", "0", "]">>,
      <<"$", "z", "z", " ", "+", " ", "$", "a", "[", "0", "]">>,
      <<"$", "v", " ", "+", " ", "$", "v", "[", "0", "]">>,
      <<"$", "v", " ", "+", " ", "#", "z", "z">>,
      <<"#", "z", "z", " ", "+", " ", "$", "a", ".", "k", "m">>,
      <<"$", "a", ".", "k", "m", " ", "+", " ", "$", "v">>,
      <<"$", "z", "z">>,
      <<"#", "z", "z">>,
      <<"$", "n", " ", "+", " ", "1">>,
      <<"$", "b", ".", "k", "m">>,
      <<"$", "v", "[", "$", "z", "z", "]">>,
      <<"$", "v", "[", "#", "z", "z", "]">>,
      <<"$", "v", "[", "$", "a", "[", "0", "]", "]">>,
      <<"$", "a", "[", "0", "]", " ", "+", " ", "$", "v", "[", "$", "z", "z", "]">>,
      <<"$", "v", "[", "$", "v", "]">>,
      <<"$", "v", "[", "$", "a", ".", "k", "m", "]">>,
      <<"$", "v", "[", "$", "v", "[", "0", "]", " ", "-", " ", "1", "0", "]">>,
      <<"5", " ", "+">>,
      <<"1", " ", "+", " ", "*", " ", "2", " ", ")">>,
      <<"$", "z", "z", " ", "+">>,
      <<"#", "z", "z", " ", ")">>,
      <<"(", "1">>,
      <<"1", " ", "2">>,
      <<"$", "a", ".", "k", "m", " ", "#", "z", "z", " ", "(">>,
      <<"s", "i", "n", "(", "1", ",", "2">>,
      <<"2", " ", "+", " ", "2", " ", "@">>,
      <<"2", " ", "@", " ", "2">>,
      <<"$", "a", " ", "&", " ", "1">>,
      <<"1", " ", "=", " ", "1">>,
      <<"$", "z", "z", " ", "?">>,
      <<"s", "i", "n", "(", "0", ")">>,
      <<"s", "i", "n", "(", "1", ",", "2", ")">>,
      <<"s", "i", "n", "(", ")">>,
      <<"p", "o", "w", "(", "2", ",", "3", ")">>,
      <<"p", "o", "w", "(", "2", ",", "3", ",", "4", ")">>,
      <<"p", "o", "w", "(", "2", ")">>,
      <<"r", "o", "u", "n", "d", "(", "2", ".", "5", ")">>,
      <<"r", "o", "u", "n", "d", "(", "1", ",", "2", ",", "3", ")">>,
      <<"r", "o", "u", "n", "d", "(", ")">>,
      <<"s", "u", "m", "(", ")">>,
      <<"s", "u", "m", "(", "1", ",", "2", ")">>,
      <<"m", "i", "n", "(", ")">>,
      <<"m", "a", "x", "(", "1", ",", "2", ")">>,
      <<"i", "f", "(", "1", ",", "2", ")">>,
      <<"i", "f", "(", "1", ",", "2", ",", "3", ")">>,
      <<"i", "f", "(", "5", "e", "-", "3", "2", "4", ",", " ", "1", ",", " ", "2", ")">>,
      <<"i", "f", "(", "0", "-", "5", "e", "-", "3", "2", "4", ",", " ", "1", ",", " ", "2", ")">>,
      <<"i", "f", "(", "2", "e", "-", "3", "2", "4", ",", " ", "1", ",", " ", "2", ")">>,
      <<"i", "f", "(", "1", "e", "-", "3", "2", "3", ",", " ", "1", ",", " ", "2", ")">>,
      <<"i", "f", "(", "0", ".", "5", " ", "*", " ", "5", "e", "-", "3", "2", "4", ",", " ", "1", ",", " ", "2", ")">>,
      <<"i", "f", "(", "0", "/", "0", ",", " ", "1", ",", " ", "2", ")">>,
      <<"5", "e", "-", "3", "2", "4", " ", "=", "=", " ", "0">>,
      <<"i", "f", "(", "0", ",", "2", ",", "3", ")">>,
      <<"i", "f", "(", "1", ",", " ", "2", ",", " ", "$", "v", "[", "5", "]", ")">>,
      <<"i", "f", "(", "0", ",", " ", "$", "v", "[", "5", "]", ",", " ", "2", ")">>,
      <<"i", "f", "(", "1", ",", " ", "2", ",", " ", "1", "/", "0", ")">>,
      <<"i", "f", "(", "0", ",", " ", "0", "/", "0", ",", " ", "3", ")">>,
      <<"i", "f", "(", "1", ",", " ", "1", "/", "0", ",", " ", "2", ")">>,
      <<"I", "F", "(", "$", "a", ",", " ", "2", ",", " ", "s", "i", "n", "(", ")", ")">>,
      <<"1", " ", "+", " ", "i", "f", "(", "$", "v", "[", "0", "]", ",", " ", "$", "v", "[", "1", "]", ",", " ", "$", "v", "[", "2", "]", ")">>,
      <<"i", "f", "(", "1", ",", "2", ",", "3", ",", "4", ")">>,
      <<"i", "f", "(", "0", ",", "2", ")">>,
      <<"v", "a", "r", "(", "1", ")">>,
      <<"s", "t", "d", "(", "1", ",", "3", ")">>,
      <<"p", "r", "o", "d", "(", ")">>,
      <<"m", "e", "a", "n", "(", ")">>,
      <<"g", "c", "d", "(", "4", ",", "6", ")">>,
      <<"g", "c", "d", "(", "4", ",", "6", ",", "8", ")">>,
      <<"l", "c", "m", "(", "4", ")">>,
      <<"m", "o", "d", "(", "7", ",", "2", ",", "1", ")">>,
      <<"f", "a", "c", "t", "(", "3", ")">>,
      <<"f", "a", "c", "t", "(", "0", ")">>,
      <<"f", "a", "c", "t", "(", "1", ")">>,
      <<"f", "a", "c", "t", "(", "2", ".", "5", ")">>,
      <<"f", "a", "c", "t", "(", "1", "2", ")">>,
      <<"f", "a", "c", "t", "(", "1", "3", ")">>,
      <<"f", "a", "c", "t", "(", "2", "0", ")">>,
      <<"f", "a", "c", "t", "(", "2", "1", ")">>,
      <<"f", "a", "c", "t", "(", "2", "0", ".", "5", ")">>,
      <<"f", "a", "c", "t", "(", "6", "6", ")">>,
      <<"f", "a", "c", "t", "(", "0", "-", "0", ".", "6", ")">>,
      <<"1", " ", "+", " ", "f", "a", "c", "t", "(", "$", "a", ")">>,
      <<"f", "a", "c", "t", "(", "0", "-", "1", ")">>,
      <<"f", "a", "c", "t", "(", ")">>,
      <<"s", "i", "g", "n", "(", "0", "/", "0", ")">>,
      <<"f", "o", "o", "(", "1", ")">>,
      <<"S", "I", "N", "(", "0", ")", " ", "+", " ", "A", "b", "s", "(", "0", "-", "2", ")">>
    }

SeqsUpTo(S, n) == UNION {[1..k -> S] : k \in 0..n}

\* $a: a scalar without unit; A: the same identifier in another case and
\* without the $, with a unit; $v: a vector with a unit; $n: neither value
\* nor values; $b: both value and values
MeasuredEntries ==
    {MeasuredValue(<<"$", "a">>, TRUE, Int2D(5), <<>>, <<>>),
     MeasuredValue(<<"A">>, TRUE, Int2D(1000), <<>>, <<"m", "e", "t", "e", "r">>),
     MeasuredValue(<<"$", "v">>, FALSE, NullDouble, <<Int2D(10), Int2D(20)>>, <<"m">>),
     MeasuredValue(<<"$", "n">>, FALSE, NullDouble, <<>>, <<>>),
     MeasuredValue(<<"$", "b">>, TRUE, Int2D(1), <<Int2D(1)>>, <<>>)}

\* #k, K (the same identifier, another value), #PI (shadows the predefined
\* #pi), # (an empty identifier)
ConstantEntries ==
    {Constant(<<"#", "k">>, Int2D(2)), Constant(<<"K">>, Int2D(3)),
     Constant(<<"#", "P", "I">>, Int2D(3)), Constant(<<"#">>, Int2D(9))}

\* $a and $v
DefaultMeasured ==
    <<MeasuredValue(<<"$", "a">>, TRUE, Int2D(5), <<>>, <<>>),
      MeasuredValue(<<"$", "v">>, FALSE, NullDouble, <<Int2D(10), Int2D(20)>>, <<"m">>)>>

DefaultConstants == <<Constant(<<"#", "k">>, Int2D(2))>>

Request(formula, measuredValues, constants) ==
    [Formula |-> formula, MeasuredValues |-> measuredValues, Constants |-> constants]

\* the PredefinedConstants section as ConfigConstantRepository loads it
PredefinedConstants ==
    <<Constant(<<"#", "p", "i">>, Fin(314159, 100000)),
      Constant(<<"#", "g", "r", "a", "v", "i", "t", "y">>, Fin(981, 100))>>

\* ConfigConstantRepository.NormalizeId
RepositoryNormalizeId(id) ==
    IF StartsWith(Trim(id), "#") THEN Trim(id) ELSE <<"#">> \o Trim(id)

RECURSIVE LoadConstants(_, _)
\* the foreach loop of the constructor of ConfigConstantRepository: list
\* after the items have been read
LoadConstants(items, list) ==
    IF items = <<>> THEN list
    ELSE IF IsNullOrWhiteSpace(Head(items).Id) THEN LoadConstants(Tail(items), list)
    ELSE LoadConstants(Tail(items),
                       Append(list, Constant(RepositoryNormalizeId(Head(items).Id), Head(items).Value)))

\* new ConfigConstantRepository(configuration).GetAll()
ConfigConstantRepository(items) == LoadConstants(items, <<>>)

\* entries of the PredefinedConstants section: #pi, g (without the #), an
\* empty and a blank identifier, a NaN and an infinite value
ConfigEntries ==
    {Constant(<<"#", "p", "i">>, Fin(314159, 100000)),
     Constant(<<" ", "g", " ">>, Fin(981, 100)),
     Constant(<<>>, Int2D(1)),
     Constant(<<" ">>, Int2D(2)),
     Constant(<<"#", "n">>, NaN),
     Constant(<<"i", "n", "f">>, PInf),
     Constant(<<"#", "m">>, NInf)}

MaxConfigEntries == 2

\* the aliases handed to TryConvert: blank ones, catalog aliases in either
\* case and padded, and texts unknown to the catalog
UnitTexts ==
    {<<>>, <<" ">>, <<"k", "m">>, <<"K", "M">>, <<" ", "k", "m", " ">>, <<"m">>,
     <<"m", "i", "l", "e", "s">>, <<"k", "g">>, <<"g">>, <<"c">>, <<"K">>, <<"f">>,
     <<"h">>, <<"x", "y", "z">>, <<"X", "y", "Z">>, <<"a", "b", "c">>}

\* no call of TryConvert
NoConversion ==
    [value |-> NullDouble, fromUnit |-> <<>>, toUnit |-> <<>>, ok |-> FALSE, result |-> NaN]

(***************************************************************************)
(* The validation service of the graphql-version backend, which checks the *)
(* formula with regular expressions.  A measured value or a constant is    *)
(* [Id, Value] with Id a String or NullString and Value a whole number.    *)
(***************************************************************************)
RECURSIVE NatText(_)
\* int.ToString() of a number that is not negative
NatText(n) == IF n < 10 THEN <<Digits[n + 1]>> ELSE NatText(n \div 10) \o <<Digits[(n % 10) + 1]>>

GraphqlOperators == {"+", "-", "*", "/"}

\* the pattern checks on the trimmed formula, in their order: the message
\* of the first check that matches, or NoMsg
GraphqlChecks(formula) ==
    LET n == Len(formula)
        at(i) == IF i >= 1 /\ i <= n THEN formula[i] ELSE ""
        afterWhite(i) == RunEnd(formula, i, WhiteSet)
        variableAt(i) == at(i) = "$" /\ at(i + 1) \in IdentStartSet
        count(c) == Cardinality({i \in 1..n : formula[i] = c})
    IN
    IF \E i \in 1..n : /\ variableAt(i)
                       /\ at(RunEnd(formula, i + 1, IdentPartSet)) \in WhiteSet
                       /\ variableAt(afterWhite(RunEnd(formula, i + 1, IdentPartSet)))
    THEN Msg("Missing operator between variables")
    ELSE IF \E i \in 1..n : at(i) \in DigitSet /\ at(i + 1) \in WhiteSet
                            /\ at(afterWhite(i + 1)) \in DigitSet
    THEN Msg("Missing operator between numbers")
    ELSE IF \E i \in 1..n : at(i) \in GraphqlOperators /\ at(i + 1) \in GraphqlOperators
    THEN Msg("Invalid double operators")
    ELSE IF at(afterWhite(1)) \in {"+", "*", "/"}
    THEN Msg("Formula cannot start with an operator")
    ELSE IF \E i \in 1..n : at(i) \in GraphqlOperators /\ afterWhite(i + 1) > n
    THEN Msg("Incomplete operation - formula ends with an operator")
    ELSE IF \E i \in 1..n : at(i) = "(" /\ at(afterWhite(i + 1)) = ")"
    THEN Msg("Empty parentheses are not allowed")
    ELSE IF count("(") > count(")") THEN Msg("Unmatched opening parenthesis")
    ELSE IF count("(") < count(")") THEN Msg("Unmatched closing parenthesis")
    ELSE IF \E i \in 1..n :
               /\ at(i) = "#"
               /\ \/ at(i + 1) = "#"
                  \/ at(i + 1) \in DigitSet
                  \/ afterWhite(i + 1) > n
                  \/ (i = 1 \/ at(i - 1) \in WhiteSet) /\ at(i + 1) \notin IdentStartSet
    THEN Msg("Invalid constant syntax")
    ELSE IF \E i \in 1..n :
               /\ at(i) = "$"
               /\ \/ at(i + 1) = "$"
                  \/ at(i + 1) \in DigitSet /\ RunEnd(formula, i + 1, DigitSet) > n
                  \/ afterWhite(i + 1) > n
    THEN Msg("Invalid variable syntax")
    ELSE NoMsg

RECURSIVE GraphqlReplaceAll(_, _, _, _)
\* Regex.Replace(text, prefix + Regex.Escape(id) + "(?![a-zA-Z0-9_])", value)
\* from position i on, for an id without characters special to Regex
GraphqlReplaceAll(text, i, pattern, value) ==
    IF i > Len(text) THEN <<>>
    ELSE IF /\ i + Len(pattern) - 1 <= Len(text)
            /\ SubSeq(text, i, i + Len(pattern) - 1) = pattern
            /\ (i + Len(pattern) > Len(text) \/ text[i + Len(pattern)] \notin IdentPartSet)
    THEN value \o GraphqlReplaceAll(text, i + Len(pattern), pattern, value)
    ELSE <<text[i]>> \o GraphqlReplaceAll(text, i + 1, pattern, value)

RECURSIVE GraphqlSubstitute(_, _, _)
\* one foreach loop over the measured values or over the constants
GraphqlSubstitute(text, prefix, entries) ==
    IF entries = <<>> THEN text
    ELSE GraphqlSubstitute(
             GraphqlReplaceAll(text, 1, <<prefix>> \o Head(entries).Id.text,
                               IF Head(entries).Value < 0
                               THEN <<"-">> \o NatText(-Head(entries).Value)
                               ELSE NatText(Head(entries).Value)),
             prefix, Tail(entries))

\* the first match of prefix [a-zA-Z_][a-zA-Z0-9_]* in the text: <<name>>,
\* or <<>> when there is none
GraphqlFirstReference(text, prefix) ==
    LET starts == {i \in 1..(Len(text) - 1) : text[i] = prefix /\ text[i + 1] \in IdentStartSet}
    IN IF starts = {} THEN <<>>
       ELSE LET i == CHOOSE i \in starts : \A j \in starts : i <= j
            IN <<SubSeq(text, i + 1, RunEnd(text, i + 1, IdentPartSet) - 1)>>

\* the first match of ([a-zA-Z_][a-zA-Z0-9_]*)\s*\( in the text: <<name>>,
\* or <<>> when there is none
GraphqlFirstCall(text) ==
    LET called(i) == /\ text[i] \in IdentStartSet
                     /\ RunEnd(text, RunEnd(text, i, IdentPartSet), WhiteSet) <= Len(text)
                     /\ text[RunEnd(text, RunEnd(text, i, IdentPartSet), WhiteSet)] = "("
        starts == {i \in 1..Len(text) : called(i)}
    IN IF starts = {} THEN <<>>
       ELSE LET i == CHOOSE i \in starts : \A j \in starts : i <= j
            IN <<SubSeq(text, i, RunEnd(text, i, IdentPartSet) - 1)>>

GraphqlAllowedFunctions ==
    {<<"s", "q", "r", "t">>, <<"s", "i", "n">>, <<"c", "o", "s">>, <<"t", "a", "n">>,
     <<"l", "o", "g">>, <<"e", "x", "p">>, <<"a", "b", "s">>, <<"p", "o", "w">>,
     <<"m", "i", "n">>, <<"m", "a", "x">>, <<"r", "o", "u", "n", "d">>,
     <<"f", "l", "o", "o", "r">>, <<"c", "e", "i", "l">>}

\* the checks for undefined variables, constants and functions on the
\* formula after the replacements
GraphqlUndefined(evaluatedFormula) ==
    LET var == GraphqlFirstReference(evaluatedFormula, "$")
        const == GraphqlFirstReference(evaluatedFormula, "#")
        func == GraphqlFirstCall(evaluatedFormula)
    IN IF var # <<>> THEN MsgArg("Undefined variable: $<name>", var[1])
       ELSE IF const # <<>> THEN MsgArg("Undefined constant: #<name>", const[1])
       ELSE IF func # <<>> /\ ToLower(func[1]) \notin GraphqlAllowedFunctions
       THEN MsgArg("Undefined function: <name>", func[1])
       ELSE NoMsg

\* the replacements, the checks after them and the end of the method, with
\* the entries whose Id is null raising ArgumentNullException in Regex.Escape
GraphqlEvaluate(formula, measuredValues, constants) ==
    IF \/ \E i \in 1..Len(measuredValues) : measuredValues[i].Id.null
       \/ \E i \in 1..Len(constants) : constants[i].Id.null
    THEN Fail([Msg("Value cannot be null. (Parameter 'str')") EXCEPT !.prefix = "Validation error: "])
    ELSE LET evaluatedFormula ==
                 GraphqlSubstitute(GraphqlSubstitute(formula, "$", measuredValues), "#", constants) IN
    IF GraphqlUndefined(evaluatedFormula) # NoMsg THEN Fail(GraphqlUndefined(evaluatedFormula))
    ELSE [NewValidationResult EXCEPT !.IsValid = TRUE, !.EvaluatedFormula = String(evaluatedFormula)]

\* GraphqlValidateFormula with an undefined function that sets the error and
\* goes on to the evaluation
GraphqlValidateFormulaFallingThrough(req) ==
    IF IsNullOrWhiteSpace(req.Formula) THEN Fail(Msg("Formula cannot be empty"))
    ELSE IF GraphqlChecks(Trim(req.Formula)) # NoMsg THEN Fail(GraphqlChecks(Trim(req.Formula)))
    ELSE LET r == GraphqlEvaluate(Trim(req.Formula), req.MeasuredValues, req.Constants)
         IN IF r.Error.text = "Undefined function: <name>" THEN [r EXCEPT !.IsValid = TRUE] ELSE r

\* FormulaValidationService.ValidateFormula of the graphql-version backend
GraphqlValidateFormula(req) ==
    IF IsNullOrWhiteSpace(req.Formula) THEN Fail(Msg("Formula cannot be empty"))
    ELSE IF GraphqlChecks(Trim(req.Formula)) # NoMsg THEN Fail(GraphqlChecks(Trim(req.Formula)))
    ELSE GraphqlEvaluate(Trim(req.Formula), req.MeasuredValues, req.Constants)

(***************************************************************************)
(* State: one call of ValidateFormula at a time.                           *)
(*   request         the ValidationRequest of the current call             *)
(*   pc              "called" until the call returns, then "returned"      *)
(*   result          the ValidationResult of the call                      *)
(*   collector       the SymbolCollector of the call                       *)
(*   constantLookup  the merged constant table of the call                 *)
(*   baseline        the result returned for the request of which the      *)
(*                   current request is a reordering, if it is one         *)
(*   repository      the constants held by the IConstantRepository         *)
(*   configuration   the PredefinedConstants section the repository is     *)
(*                   constructed from                                      *)
(*   conversion      a call of UnitResolver.TryConvert: its arguments, and *)
(*                   the value returned with the out parameter             *)
(*   page            the state of the frontend page: the state object of   *)
(*                   state.js, the editor, the timers and requests pending *)
(***************************************************************************)
VARIABLES request, pc, result, collector, constantLookup, baseline, repository,
          configuration, conversion, page

vars == <<request, pc, result, collector, constantLookup, baseline, repository,
          configuration, conversion, page>>

\* the backend runs without a page
NoPage == [loaded |-> FALSE]

Init ==
    /\ page = NoPage
    /\ \/ request \in {Request(f, m, DefaultConstants) :
                            f \in FormulaCatalog, m \in SeqsUpTo(MeasuredEntries, MaxMeasured)}
       \/ request \in {Request(f, DefaultMeasured, c) :
                            f \in FormulaCatalog, c \in SeqsUpTo(ConstantEntries, MaxConstants)}
       \/ request \in {Request(f, DefaultMeasured, DefaultConstants) : f \in SeqsUpTo(FormulaAlphabet, MaxFormulaLen)}
    /\ pc = "called"
    /\ result = NewValidationResult
    /\ collector = NewSymbolCollector
    /\ constantLookup = <<>>
    /\ baseline = [has |-> FALSE, result |-> NewValidationResult, request |-> Request(<<>>, <<>>, <<>>)]
    /\ repository = PredefinedConstants
    /\ configuration = <<>>
    /\ conversion = NoConversion

\* Validate on a service that keeps the constants of the calls before in its
\* table
ValidateKeepingConstants ==
    /\ pc = "called"
    /\ \E returned \in {ValidateFormula(request, repository \o DictValues(constantLookup))} :
          /\ result' = returned.result
          /\ collector' = returned.collector
          /\ constantLookup' = returned.constantLookup
    /\ pc' = "returned"
    /\ UNCHANGED <<request, baseline, repository, configuration, conversion, page>>

\* the call runs to its return statement
Validate ==
    /\ pc = "called"
    /\ \E returned \in {ValidateFormula(request, repository)} :
          /\ result' = returned.result
          /\ collector' = returned.collector
          /\ constantLookup' = returned.constantLookup
    /\ pc' = "returned"
    /\ UNCHANGED <<request, baseline, repository, configuration, conversion, page>>

Swap(s, i) ==
    [j \in 1..Len(s) |-> IF j = i THEN s[i + 1] ELSE IF j = i + 1 THEN s[i] ELSE s[j]]

\* a new call with the same request except that two neighbouring entries of
\* the list have changed places
Resubmit(newRequest) ==
    /\ pc = "returned"
    /\ newRequest # request
    /\ request' = newRequest
    /\ baseline' = [has |-> TRUE, result |-> result, request |-> request]
    /\ pc' = "called"
    /\ result' = NewValidationResult
    /\ collector' = NewSymbolCollector
    /\ constantLookup' = <<>>
    /\ UNCHANGED <<repository, configuration, conversion, page>>

PermuteMeasured ==
    \E i \in 1..(Len(request.MeasuredValues) - 1) :
        Resubmit([request EXCEPT !.MeasuredValues = Swap(@, i)])

PermuteConstants ==
    \E i \in 1..(Len(request.Constants) - 1) :
        Resubmit([request EXCEPT !.Constants = Swap(@, i)])

Next == Validate \/ PermuteMeasured \/ PermuteConstants

Spec == Init /\ [][Next]_vars

\* no call of ValidateFormula
NoCall ==
    /\ request = Request(<<>>, <<>>, <<>>)
    /\ result = NewValidationResult
    /\ collector = NewSymbolCollector
    /\ constantLookup = <<>>
    /\ baseline = [has |-> FALSE, result |-> NewValidationResult, request |-> Request(<<>>, <<>>, <<>>)]

GraphqlFormulas ==
    {<<"1", " ", "+", " ", "2">>,
     <<"$", "a", " ", "+", " ", "$", "b">>,
     <<"$", "a", " ", "*", " ", "#", "k">>,
     <<"s", "q", "r", "t", "(", "$", "a", ")">>,
     <<"(", "1", " ", "+", " ", "2", ")", " ", "*", " ", "$", "a">>,
     <<"-", "1">>,
     <<"$", "a", " ", "$", "b">>,
     <<"1", " ", "2">>,
     <<"1", " ", "+", "+", " ", "2">>,
     <<"1", " ", "+", " ", "+", " ", "2">>,
     <<"+", " ", "1">>,
     <<"*", " ", "1">>,
     <<"1", " ", "+">>,
     <<"1", " ", "-">>,
     <<"(", ")">>,
     <<"(", " ", ")">>,
     <<"(", "1">>,
     <<"1", ")">>,
     <<")", "1", "(">>,
     <<"#", "#", "k">>,
     <<"#", "1">>,
     <<"#">>,
     <<"1", " ", "+", " ", "#">>,
     <<"#", " ", "k">>,
     <<"$", "$", "a">>,
     <<"$", "1">>,
     <<"$">>,
     <<"$", "a", " ", "+", " ", "$">>,
     <<"$", "c">>,
     <<"#", "z">>,
     <<"$", "a", "b">>,
     <<"f", "o", "o", "(", "1", ")">>,
     <<"S", "Q", "R", "T", "(", "1", ")">>,
     <<"s", "i", "n", "(", "1", ")", " ", "+", " ", "f", "o", "o", "(", "2", ")">>,
     <<"s", "i", "n", " ", "(", "1", ")">>,
     <<"2", "s", "i", "n", "(", "1", ")">>,
     <<"$", "a", " ", "2">>,
     <<"$", "a", "(", "1", ")">>,
     <<>>,
     <<" ", " ">>,
     <<" ", "1", " ">>,
     <<"$", "a", "#", "k">>,
     <<"a", "b", "c">>,
     <<"1", " ", "/", " ", "(", "2", " ", "-", " ", "$", "b", ")">>}

\* a measured value $a, a measured value $b, and one whose Id is null
GraphqlMeasured ==
    {[Id |-> String(<<"a">>), Value |-> 5], [Id |-> String(<<"b">>), Value |-> 2],
     [Id |-> NullString, Value |-> 1]}

GraphqlConstants == {[Id |-> String(<<"k">>), Value |-> 3], [Id |-> NullString, Value |-> 1]}

MaxGraphqlMeasured == 2

MaxGraphqlConstants == 1

(***************************************************************************)
(* One call of ValidateFormula of the graphql-version backend.             *)
(***************************************************************************)
InitGraphql ==
    /\ page = NoPage
    /\ request \in {Request(f, m, c) : f \in GraphqlFormulas,
                                       m \in SeqsUpTo(GraphqlMeasured, MaxGraphqlMeasured),
                                       c \in SeqsUpTo(GraphqlConstants, MaxGraphqlConstants)}
    /\ pc = "validating"
    /\ result = NewValidationResult
    /\ collector = NewSymbolCollector
    /\ constantLookup = <<>>
    /\ baseline = [has |-> FALSE, result |-> NewValidationResult, request |-> Request(<<>>, <<>>, <<>>)]
    /\ repository = <<>>
    /\ configuration = <<>>
    /\ conversion = NoConversion

\* the call runs to its return statement
ValidateGraphql ==
    /\ pc = "validating"
    /\ result' = GraphqlValidateFormula(request)
    /\ pc' = "validated"
    /\ UNCHANGED <<request, collector, constantLookup, baseline, repository, configuration, conversion, page>>

SpecGraphql == InitGraphql /\ [][ValidateGraphql]_vars

(***************************************************************************)
(* A sequence of calls of ValidateFormula on one service, each with a      *)
(* request of the caller's choice.  The locals of a call that has returned *)
(* are left as they are until the next call assigns them.                  *)
(***************************************************************************)
CallRequests ==
    {Request(f, m, c) :
        f \in {<<"#", "k">>, <<"#", "p", "i">>, <<"$", "a", " ", "*", " ", "#", "k">>},
        m \in {<<>>, <<MeasuredValue(<<"$", "a">>, TRUE, Int2D(5), <<>>, <<>>)>>},
        c \in {<<>>, <<Constant(<<"#", "k">>, Int2D(2))>>, <<Constant(<<"#", "P", "I">>, Int2D(3))>>}}

InitCalls ==
    /\ page = NoPage
    /\ request \in CallRequests
    /\ pc = "called"
    /\ result = NewValidationResult
    /\ collector = NewSymbolCollector
    /\ constantLookup = <<>>
    /\ baseline = [has |-> FALSE, result |-> NewValidationResult, request |-> Request(<<>>, <<>>, <<>>)]
    /\ repository = PredefinedConstants
    /\ configuration = <<>>
    /\ conversion = NoConversion

\* the next call; baseline keeps the request and the result of the first one
Recall ==
    /\ pc = "returned"
    /\ request' \in CallRequests
    /\ pc' = "called"
    /\ result' = NewValidationResult
    /\ baseline' = IF baseline.has THEN baseline
                   ELSE [has |-> TRUE, result |-> result, request |-> request]
    /\ UNCHANGED <<collector, constantLookup, repository, configuration, conversion, page>>

SpecCalls == InitCalls /\ [][Validate \/ Recall]_vars


(***************************************************************************)
InitRepository ==
    /\ page = NoPage
    /\ NoCall
    /\ conversion = NoConversion
    /\ configuration \in SeqsUpTo(ConfigEntries, MaxConfigEntries)
    /\ repository = <<>>
    /\ pc = "constructing"

\* the constructor of ConfigConstantRepository runs
Construct ==
    /\ pc = "constructing"
    /\ repository' = ConfigConstantRepository(configuration)
    /\ pc' = "constructed"
    /\ UNCHANGED <<request, result, collector, constantLookup, baseline, configuration, conversion, page>>

SpecRepository == InitRepository /\ [][Construct]_vars

(***************************************************************************)
(* One call of UnitResolver.TryConvert.                                    *)
(***************************************************************************)
InitConvert ==
    /\ page = NoPage
    /\ NoCall
    /\ repository = PredefinedConstants
    /\ configuration = <<>>
    /\ conversion \in {[NoConversion EXCEPT !.value = v, !.fromUnit = from, !.toUnit = to] :
                           v \in {Int2D(0), Int2D(1), Fin(5, 2), Int2D(-40)}, from \in UnitTexts, to \in UnitTexts}
    /\ pc = "converting"

\* the call runs to its return statement
Convert ==
    /\ pc = "converting"
    /\ \E converted \in {TryConvert(conversion.value, conversion.fromUnit, conversion.toUnit)} :
          conversion' = [conversion EXCEPT !.ok = converted.ok, !.result = converted.v]
    /\ pc' = "converted"
    /\ UNCHANGED <<request, result, collector, constantLookup, baseline, repository, configuration, page>>

SpecConvert == InitConvert /\ [][Convert]_vars

(***************************************************************************)
(* The frontend page.  page is a record:                                   *)
(*   editor             the text of the editor                             *)
(*   validationTimeout  state.validationTimeout: a timer handle, 0 for null*)
(*   timers             the timers of the page that are scheduled and have *)
(*                      neither fired nor been cleared: [id, run], run the *)
(*                      number of the validation run that scheduled the    *)
(*                      timer by rewriting the editor, 0 for the others    *)
(*   nextHandle         the handle the next setTimeout returns             *)
(*   loaded             the DOMContentLoaded handler has run to its end    *)
(*   status, errors, result, annotations, indicator                        *)
(*                      what updateValidationStatus, showErrors,           *)
(*                      updateResult, the annotations of the session and   *)
(*                      updateBackendIndicator show                        *)
(*   requestCount       state.requestCount, the number of requests sent    *)
(*   inflight           the requests sent and not answered: [seq, formula] *)
(*   formulaHistory     state.formulaHistory                               *)
(*   runs               the number of calls of performBackendValidation    *)
(*   changes, clicks    the number of edits and of clicks of the user      *)
(*   acted              the handle the next setTimeout returned when the   *)
(*                      user acted last: the timers with a smaller handle  *)
(*                      were scheduled before that edit or click           *)
(*   event              the step taken last: its kind, the timer that      *)
(*                      fired and the run that had scheduled it, whether   *)
(*                      the run rewrote the editor                         *)
(*   latest             the view the answer to the request sent last gave, *)
(*                      once it is processed                               *)
(***************************************************************************)
RECURSIVE normalizeFormulaSymbols(_, _)
\* formula.replace(/([#$])\1+(?=[a-zA-Z_])/g, symbol) from position i on;
\* the caret index the function also returns is not kept
normalizeFormulaSymbols(formula, i) ==
    IF i > Len(formula) THEN <<>>
    ELSE IF /\ formula[i] \in {"#", "$"}
            /\ RunEnd(formula, i, {formula[i]}) >= i + 2
            /\ RunEnd(formula, i, {formula[i]}) <= Len(formula)
            /\ formula[RunEnd(formula, i, {formula[i]})] \in IdentStartSet
    THEN <<formula[i]>> \o normalizeFormulaSymbols(formula, RunEnd(formula, i, {formula[i]}))
    ELSE <<formula[i]>> \o normalizeFormulaSymbols(formula, i + 1)

\* clearTimeout(handle)
clearTimeout(timers, handle) == {t \in timers : t.id # handle}

\* clearValidationTimeout of state.js
clearValidationTimeout(p) ==
    IF p.validationTimeout # 0
    THEN [p EXCEPT !.timers = clearTimeout(@, p.validationTimeout), !.validationTimeout = 0]
    ELSE p

\* the handler of the change event of the session, for a change made by
\* validation run number run, 0 for a change by the user
changeHandler(p, run) ==
    [p EXCEPT !.timers = (IF p.validationTimeout # 0 THEN clearTimeout(@, p.validationTimeout) ELSE @)
                             \cup {[id |-> p.nextHandle, run |-> run]},
              !.status = "validating",
              !.validationTimeout = p.nextHandle,
              !.nextHandle = @ + 1]

\* the view of the page a claim about the display compares
View(p) == [status |-> p.status, errors |-> p.errors, result |-> p.result, annotations |-> p.annotations]

\* addToHistory that keeps every entry
addToHistoryKeepingAll(formulaHistory, formula, res) ==
    <<[formula |-> formula, result |-> res]>> \o formulaHistory

\* addToHistory of ui.js
addToHistory(formulaHistory, formula, res) ==
    IF Len(formulaHistory) + 1 > 10
    THEN SubSeq(<<[formula |-> formula, result |-> res]>> \o formulaHistory, 1, Len(formulaHistory))
    ELSE <<[formula |-> formula, result |-> res]>> \o formulaHistory

\* session.replace(range, normalizedFormula) with the change event it raises
replaceEditor(p, normalizedFormula, run) == changeHandler([p EXCEPT !.editor = normalizedFormula], run)

\* performBackendValidation with a session.replace for every formula
performBackendValidationAlwaysReplacing(p) ==
    LET run == p.runs + 1
        cleared == [clearValidationTimeout(p) EXCEPT !.runs = run]
        normalizedFormula == normalizeFormulaSymbols(p.editor, 1)
        replaced == replaceEditor(cleared, normalizedFormula, run)
    IN IF Trim(normalizedFormula) = <<>>
       THEN [replaced EXCEPT !.status = "", !.errors = <<>>, !.result = NullString]
       ELSE [replaced EXCEPT !.indicator = "Validating...",
                             !.requestCount = @ + 1,
                             !.inflight = @ \cup {[seq |-> p.requestCount + 1, formula |-> normalizedFormula]}]

\* performBackendValidation up to its await: the timeout is cleared, the
\* editor rewritten if normalizing changes the formula, and either the
\* display emptied for a blank formula or the request sent
performBackendValidation(p) ==
    LET run == p.runs + 1
        cleared == [clearValidationTimeout(p) EXCEPT !.runs = run]
        normalizedFormula == normalizeFormulaSymbols(p.editor, 1)
        replaced == IF normalizedFormula # p.editor THEN replaceEditor(cleared, normalizedFormula, run)
                    ELSE cleared
    IN IF Trim(normalizedFormula) = <<>>
       THEN [replaced EXCEPT !.status = "", !.errors = <<>>, !.result = NullString]
       ELSE [replaced EXCEPT !.indicator = "Validating...",
                             !.requestCount = @ + 1,
                             !.inflight = @ \cup {[seq |-> p.requestCount + 1, formula |-> normalizedFormula]}]

\* the answers a request can get: the backend finds the formula valid or
\* not, the payload carries GraphQL errors, or fetch throws
Answers == {"valid", "invalid", "errors", "offline"}

\* performBackendValidation from its await on, for the answer to request r;
\* the result and the error of the backend are named after the formula
processAnswer(p, r, answer) ==
    IF answer = "errors"
    THEN [p EXCEPT !.status = "error", !.errors = <<[text |-> "Backend validation error", formula |-> <<>>]>>,
                   !.result = NullString, !.indicator = "Error"]
    ELSE IF answer = "valid"
    THEN [p EXCEPT !.status = "valid", !.errors = <<>>, !.result = String(r.formula),
                   !.formulaHistory = addToHistory(@, r.formula, String(r.formula)),
                   !.annotations = <<>>, !.indicator = "Ready"]
    ELSE IF answer = "invalid"
    THEN [p EXCEPT !.status = "error", !.errors = <<[text |-> "error", formula |-> r.formula]>>,
                   !.result = NullString,
                   !.annotations = <<[text |-> "error", formula |-> r.formula]>>, !.indicator = "Ready"]
    ELSE [p EXCEPT !.status = "error", !.errors = <<[text |-> "Failed to connect to backend", formula |-> <<>>]>>,
                   !.result = NullString, !.indicator = "Offline"]

\* the texts the user gives the editor
EditorTexts ==
    {<<>>, <<"#", "#", "k", " ", "+", " ", "$", "$", "$", "a">>, <<"$", "a">>}

MaxChanges == 1

MaxClicks == 1

\* the page after initializeEditor, while the DOMContentLoaded handler
\* awaits the constants and the test cases
InitPage ==
    /\ page = [editor |-> <<"(", "$", "t", "e", "m", "p", "e", "r", "a", "t", "u", "r", "e", " ", "*", " ", "#", "c", "o", "n", "v", "e", "r", "s", "i", "o", "n", "_", "f", "a", "c", "t", "o", "r", ")", " ", "+", " ", "3", "2">>,
               validationTimeout |-> 0, timers |-> {}, nextHandle |-> 1, loaded |-> FALSE,
               status |-> "", errors |-> <<>>, result |-> NullString, annotations |-> <<>>,
               indicator |-> "", requestCount |-> 0, inflight |-> {}, formulaHistory |-> <<>>,
               runs |-> 0, changes |-> 0, clicks |-> 0, acted |-> 0,
               event |-> [kind |-> "init", timer |-> 0, by |-> 0, rewrote |-> FALSE],
               latest |-> [seq |-> 0, view |-> [status |-> "", errors |-> <<>>, result |-> NullString,
                                                 annotations |-> <<>>]]]
    /\ request = Request(<<>>, <<>>, <<>>)
    /\ pc = "page"
    /\ result = NewValidationResult
    /\ collector = NewSymbolCollector
    /\ constantLookup = <<>>
    /\ baseline = [has |-> FALSE, result |-> NewValidationResult, request |-> Request(<<>>, <<>>, <<>>)]
    /\ repository = <<>>
    /\ configuration = <<>>
    /\ conversion = NoConversion

backend == <<request, pc, result, collector, constantLookup, baseline, repository, configuration, conversion>>

\* the user edits the formula
Change ==
    /\ page.changes < MaxChanges
    /\ \E text \in EditorTexts \ {page.editor} :
          page' = [changeHandler([page EXCEPT !.editor = text], 0)
                      EXCEPT !.changes = @ + 1,
                             !.acted = page.nextHandle,
                             !.event = [kind |-> "change", timer |-> 0, by |-> 0, rewrote |-> FALSE]]
    /\ UNCHANGED backend

\* the DOMContentLoaded handler ends: setTimeout(() => performBackendValidation(), 100)
Loaded ==
    /\ ~page.loaded
    /\ page' = [page EXCEPT !.loaded = TRUE,
                            !.timers = @ \cup {[id |-> page.nextHandle, run |-> 0]},
                            !.nextHandle = @ + 1,
                            !.event = [kind |-> "loaded", timer |-> 0, by |-> 0, rewrote |-> FALSE]]
    /\ UNCHANGED backend

\* a timer fires and its callback calls performBackendValidation
TimerFires ==
    /\ \E t \in page.timers :
          \E fired \in {[page EXCEPT !.timers = @ \ {t}]} :
             page' = [performBackendValidation(fired)
                         EXCEPT !.event = [kind |-> "timer", timer |-> t.id, by |-> t.run,
                                           rewrote |-> performBackendValidation(fired).editor # page.editor]]
    /\ UNCHANGED backend

\* the user clicks Validate, or changes a source so that the validation
\* callback runs
Click ==
    /\ page.clicks < MaxClicks
    /\ page' = [performBackendValidation(page)
                   EXCEPT !.clicks = @ + 1,
                          !.acted = page.nextHandle,
                          !.event = [kind |-> "click", timer |-> 0, by |-> 0,
                                     rewrote |-> performBackendValidation(page).editor # page.editor]]
    /\ UNCHANGED backend

\* the answer to a request arrives and the rest of performBackendValidation runs
Answer ==
    /\ \E r \in page.inflight, answer \in Answers :
          \E processed \in {processAnswer([page EXCEPT !.inflight = @ \ {r}], r, answer)} :
             page' = [processed EXCEPT !.event = [kind |-> "answer", timer |-> 0, by |-> 0, rewrote |-> FALSE],
                                       !.latest = IF r.seq = page.requestCount
                                                  THEN [seq |-> r.seq, view |-> View(processed)]
                                                  ELSE @]
    /\ UNCHANGED backend

NextPage == Change \/ Loaded \/ TimerFires \/ Click \/ Answer

SpecPage == InitPage /\ [][NextPage]_vars

\* timers fire and requests are answered; the user need not act
SpecPageFair == SpecPage /\ WF_vars(TimerFires) /\ WF_vars(Answer)

(***************************************************************************)
(* A sequence of calls of addToHistory.  page is [formulaHistory, added]:  *)
(* state.formulaHistory, and every pair added so far, the newest first.    *)
(***************************************************************************)
\* the (formula, result) pairs added
HistoryPairs == {<<<<"1">>, String(<<"1">>)>>, <<<<"$", "a">>, String(<<"5">>)>>}

MaxAdded == 12

InitHistory ==
    /\ page = [formulaHistory |-> <<>>, added |-> <<>>]
    /\ request = Request(<<>>, <<>>, <<>>)
    /\ pc = "history"
    /\ result = NewValidationResult
    /\ collector = NewSymbolCollector
    /\ constantLookup = <<>>
    /\ baseline = [has |-> FALSE, result |-> NewValidationResult, request |-> Request(<<>>, <<>>, <<>>)]
    /\ repository = <<>>
    /\ configuration = <<>>
    /\ conversion = NoConversion

AddToHistory ==
    /\ Len(page.added) < MaxAdded
    /\ \E pair \in HistoryPairs :
          page' = [formulaHistory |-> addToHistory(page.formulaHistory, pair[1], pair[2]),
                   added |-> <<[formula |-> pair[1], result |-> pair[2]]>> \o page.added]
    /\ UNCHANGED backend

SpecHistory == InitHistory /\ [][AddToHistory]_vars

(***************************************************************************)
(* The test runner of the page.  page is a record:                         *)
(*   testCases      state.testCases, as loadTestCases left it              *)
(*   testRunning    state.testRunning                                      *)
(*   i              the loop variable of the run in progress               *)
(*   results        the results array of the run in progress               *)
(*   rendered       the entries of the testResults container               *)
(*   fetching       the number of the test case whose request is in        *)
(*                  flight, 0 for none                                     *)
(*   waiting        the delay after a test case is being awaited           *)
(*   delay          the delay of the run in progress, in ms                *)
(*   disabled       runTestsBtn.disabled                                   *)
(*   toast          the toast shown last: <<passed, failed>>               *)
(*   calls          the number of calls of runTests                        *)
(*   event          the step taken last                                    *)
(***************************************************************************)
\* a test case expects a result or an error
TestCase(name, expectedResult, expectedError) ==
    [name |-> name, expectedResult |-> expectedResult, expectedError |-> expectedError]

\* the answers to the request of a test case: the formula is valid with a
\* result, it is invalid, the payload has no data, or fetch throws
TestAnswers ==
    {[kind |-> "valid", result |-> 5], [kind |-> "valid", result |-> 6],
     [kind |-> "invalid", result |-> 0], [kind |-> "nodata", result |-> 0],
     [kind |-> "offline", result |-> 0]}

\* runSingleTest without its catch clause: [done, result], done is FALSE
\* when the promise is rejected
runSingleTestWithoutCatch(testCase, answer) ==
    IF answer.kind \in {"nodata", "offline"}
    THEN [done |-> FALSE, result |-> [name |-> testCase.name, passed |-> FALSE, actual |-> "Network error"]]
    ELSE IF testCase.expectedError # ""
    THEN [done |-> TRUE,
          result |-> [name |-> testCase.name, passed |-> answer.kind # "valid",
                      actual |-> IF answer.kind = "valid" THEN "No error" ELSE "error"]]
    ELSE [done |-> TRUE,
          result |-> [name |-> testCase.name,
                      passed |-> answer.kind = "valid"
                                    /\ 1000 * (IF answer.result < testCase.expectedResult
                                               THEN testCase.expectedResult - answer.result
                                               ELSE answer.result - testCase.expectedResult) < 1,
                      actual |-> IF answer.kind = "valid" THEN "result" ELSE "null"]]

\* runSingleTest from its await on: [done, result]
runSingleTest(testCase, answer) ==
    IF answer.kind \in {"nodata", "offline"}
    THEN [done |-> TRUE, result |-> [name |-> testCase.name, passed |-> FALSE, actual |-> "Network error"]]
    ELSE IF testCase.expectedError # ""
    THEN [done |-> TRUE,
          result |-> [name |-> testCase.name, passed |-> answer.kind # "valid",
                      actual |-> IF answer.kind = "valid" THEN "No error" ELSE "error"]]
    ELSE [done |-> TRUE,
          result |-> [name |-> testCase.name,
                      passed |-> answer.kind = "valid"
                                    /\ 1000 * (IF answer.result < testCase.expectedResult
                                               THEN testCase.expectedResult - answer.result
                                               ELSE answer.result - testCase.expectedResult) < 1,
                      actual |-> IF answer.kind = "valid" THEN "result" ELSE "null"]]

\* the head of the for loop of runTests and what follows the loop
loopTests(p) ==
    IF p.i < Len(p.testCases) THEN [p EXCEPT !.fetching = p.i + 1]
    ELSE [p EXCEPT !.testRunning = FALSE, !.disabled = FALSE,
                   !.toast = <<Cardinality({k \in 1..Len(p.results) : p.results[k].passed}),
                               Cardinality({k \in 1..Len(p.results) : ~p.results[k].passed})>>]

\* runTests up to its first await
runTests(p, delay) ==
    IF p.testRunning THEN p
    ELSE loopTests([p EXCEPT !.testRunning = TRUE, !.i = 0, !.results = <<>>, !.delay = delay,
                             !.rendered = <<>>, !.disabled = TRUE])

\* the body of the loop after await runSingleTest(testCase)
testDone(p, ran) ==
    IF ~ran.done THEN [p EXCEPT !.fetching = 0]
    ELSE LET pushed == [p EXCEPT !.fetching = 0, !.results = Append(@, ran.result),
                                 !.rendered = Append(@, ran.result)]
         IN IF p.delay > 0 THEN [pushed EXCEPT !.waiting = TRUE]
            ELSE loopTests([pushed EXCEPT !.i = @ + 1])

\* the loaded lists of test cases
TestCaseLists ==
    {<<>>,
     <<TestCase("t1", 5, "")>>,
     <<TestCase("t1", 5, ""), TestCase("t2", 0, "Division by zero")>>,
     <<TestCase("t1", 5, ""), TestCase("t2", 0, "Division by zero"), TestCase("t3", 6, "")>>}

\* the delays of the speeds instant, fast and normal
TestDelays == {0, 100, 500}

MaxRunCalls == 3

InitTests ==
    /\ \E testCases \in TestCaseLists :
          page = [testCases |-> testCases, testRunning |-> FALSE, i |-> 0, results |-> <<>>,
                  rendered |-> <<>>, fetching |-> 0, waiting |-> FALSE, delay |-> 0,
                  disabled |-> FALSE, toast |-> <<0, 0>>, calls |-> 0, event |-> "init"]
    /\ request = Request(<<>>, <<>>, <<>>)
    /\ pc = "tests"
    /\ result = NewValidationResult
    /\ collector = NewSymbolCollector
    /\ constantLookup = <<>>
    /\ baseline = [has |-> FALSE, result |-> NewValidationResult, request |-> Request(<<>>, <<>>, <<>>)]
    /\ repository = <<>>
    /\ configuration = <<>>
    /\ conversion = NoConversion

\* runTests is called
RunTests ==
    /\ page.calls < MaxRunCalls
    /\ \E delay \in TestDelays :
          page' = [runTests(page, delay)
                      EXCEPT !.calls = @ + 1,
                             !.event = IF page.testRunning THEN "ignored" ELSE "started"]
    /\ UNCHANGED backend

\* the request of the test case in progress is answered
TestAnswered ==
    /\ page.fetching # 0
    /\ \E answer \in TestAnswers :
          page' = [testDone(page, runSingleTest(page.testCases[page.fetching], answer))
                      EXCEPT !.event = "answered"]
    /\ UNCHANGED backend

\* the delay after a test case has passed
DelayElapsed ==
    /\ page.waiting
    /\ page' = [loopTests([page EXCEPT !.waiting = FALSE, !.i = @ + 1]) EXCEPT !.event = "delayed"]
    /\ UNCHANGED backend

NextTests == RunTests \/ TestAnswered \/ DelayElapsed

SpecTests == InitTests /\ [][NextTests]_vars

\* every request is answered and every delay passes
SpecTestsFair == SpecTests /\ WF_vars(TestAnswered) /\ WF_vars(DelayElapsed)

(***************************************************************************)
(* Derived views of the current call, used by the properties below.        *)
(***************************************************************************)
Returns == pc = "returned"

NonEmptyFormula == ~IsNullOrWhiteSpace(request.Formula)

Input == Trim(request.Formula)

InputTokens == Lex(Input).tokens

\* the characters of the input for which the lexer produced no token
InputDropped == Lex(Input).dropped

\* the syntax errors the parser reports for the input, in order
InputReports == SyntaxErrorReports(InputTokens)

ParsesCleanly == NonEmptyFormula /\ InputReports = <<>>

InputTree == ParseFormula(InputTokens).node

MeasuredOutcome == BuildMeasuredLookup(request.MeasuredValues)

(***************************************************************************)
(* C1.  Every returned envelope has one of two shapes: valid with no       *)
(* error, a result and the trimmed input formula as EvaluatedFormula; or   *)
(* invalid with an error and neither result nor EvaluatedFormula.  Source  *)
(* is always "Backend".                                                    *)
(***************************************************************************)
EnvelopeShape ==
    Returns =>
        /\ result.Source = "Backend"
        /\ \/ /\ result.IsValid
              /\ result.Error = NoMsg
              /\ result.Result # NullDouble
              /\ result.EvaluatedFormula = String(Input)
           \/ /\ ~result.IsValid
              /\ result.Error # NoMsg
              /\ result.Result = NullDouble
              /\ result.EvaluatedFormula = NullString

\* a valid envelope for a formula that Trim shortens
EnvelopeShapeWitness ==
    Returns /\ result.IsValid /\ request.Formula # Input

CheckTexts ==
    <<"Undefined variable: $<name>",
      "Variable '<name>' is scalar but is used with an index.",
      "Variable '<name>' is used both with and without an index.",
      "Variable '<name>' is non-scalar. Use an index like '$<name>[i]'.",
      "Undefined constant: #<name>",
      "Variable '<name>' has no unit defined but is used with a unit suffix.">>

Elements(s) == {s[i] : i \in 1..Len(s)}

\* the checks that fail on the collected symbols, each judged on its own
FailingChecks ==
    LET lookup == MeasuredOutcome.lookup
        merged == MergeConstants(repository, request.Constants)
        defined(v) == ContainsKey(lookup, v)
        vector(v) == defined(v) /\ Len(Lookup(lookup, v).Values) > 0
        unitless(v) == defined(v) /\ IsNullOrWhiteSpace(Lookup(lookup, v).Unit)
    IN {k \in 1..6 :
          CASE k = 1 -> \E v \in Elements(collector.Variables) : ~defined(v)
            [] k = 2 -> \E v \in Elements(collector.VariablesWithIndex) : ~vector(v)
            [] k = 3 -> \E v \in Elements(collector.VariablesWithIndex) :
                            SetContains(collector.VariablesWithoutIndex, v)
            [] k = 4 -> \E v \in Elements(collector.VariablesWithoutIndex) : vector(v)
            [] k = 5 -> \E c \in Elements(collector.Constants) : ~ContainsKey(merged, c)
            [] k = 6 -> \E v \in Elements(collector.VariablesWithUnit) : unitless(v)}

Minimum(S) == CHOOSE k \in S : \A j \in S : k <= j

(***************************************************************************)
(* C2.  When the parse succeeded and the measured values normalised, the   *)
(* error returned is the message of the first semantic check, in the order *)
(* undefined variable, scalar with index, mixed index use, vector without  *)
(* index, undefined constant, unit suffix without unit, that fails on the  *)
(* collected symbols, whatever later checks fail as well.                  *)
(***************************************************************************)
SemanticCheckOrder ==
    (Returns /\ ParsesCleanly /\ MeasuredOutcome.error = NoMsg /\ FailingChecks # {}) =>
        /\ ~result.IsValid
        /\ result.Error.prefix = ""
        /\ result.Error.text = CheckTexts[Minimum(FailingChecks)]

\* a scalar used both with and without an index: the scalar-index message
SemanticCheckOrderWitness ==
    /\ Returns /\ ParsesCleanly /\ MeasuredOutcome.error = NoMsg
    /\ {2, 3} \subseteq FailingChecks
    /\ 1 \notin FailingChecks
    /\ result.Error.text = CheckTexts[2]

(***************************************************************************)
(* C3.  As stated: a request with a measured-value normalization error     *)
(* and a syntactically invalid formula gets the normalization error.       *)
(***************************************************************************)
NormalizationBeforeParsing ==
    (Returns /\ NonEmptyFormula /\ InputReports # <<>> /\ MeasuredOutcome.error # NoMsg) =>
        result.Error = MeasuredOutcome.error

(***************************************************************************)
(* C3, amended.  The measured values are normalised after the parse and    *)
(* before the semantic checks: a request with a normalization error gets   *)
(* the syntax error when the formula has one, and the normalization error  *)
(* otherwise, whatever the semantic checks would say.                      *)
(***************************************************************************)
NormalizationAfterParsing ==
    (Returns /\ NonEmptyFormula /\ MeasuredOutcome.error # NoMsg) =>
        /\ ~result.IsValid
        /\ result.Error = IF InputReports # <<>> THEN SyntaxErrorMessage(InputReports[1])
                          ELSE MeasuredOutcome.error

\* a duplicate (or both/neither) entry together with a syntax error
NormalizationAfterParsingWitness ==
    Returns /\ NonEmptyFormula /\ InputReports # <<>> /\ MeasuredOutcome.error # NoMsg

(***************************************************************************)
(* C4.  When the parser reports syntax errors, the envelope is the failure *)
(* envelope of the first report; later reports, the symbols, the request's *)
(* measured values and constants and the evaluation have no influence.     *)
(***************************************************************************)
FirstSyntaxErrorOnly ==
    (Returns /\ NonEmptyFormula /\ InputReports # <<>>) =>
        result = Fail(SyntaxErrorMessage(InputReports[1]))

\* two reports with different messages
FirstSyntaxErrorOnlyWitness ==
    /\ Returns /\ NonEmptyFormula
    /\ Len(InputReports) >= 2
    /\ SyntaxErrorMessage(InputReports[2]) # SyntaxErrorMessage(InputReports[1])
    /\ result.Error = SyntaxErrorMessage(InputReports[1])

SyntaxErrorTexts ==
    {"Unexpected end of formula at [line L, col C]",
     "Unexpected token: ')' at [line L, col C]",
     "Unexpected token: '(' at [line L, col C]",
     "Syntax error near '<tok>' at [line L, col C]"}

(***************************************************************************)
(* C5.  As stated: a formula containing a character that matches no lexer  *)
(* token is rejected with a syntax error carrying the line and the 1-based *)
(* column of that character.                                               *)
(***************************************************************************)
UnknownCharacterRejected ==
    (Returns /\ NonEmptyFormula /\ InputDropped # <<>>) =>
        /\ ~result.IsValid
        /\ result.Error.text \in SyntaxErrorTexts
        /\ result.Error.nums = <<InputDropped[1].line, InputDropped[1].col + 1>>

RECURSIVE References(_, _)
\* the names of all nodes of type t in the tree
References(node, t) ==
    (IF node.t = t THEN {node.text} ELSE {})
        \cup UNION {References(node.kids[i], t) : i \in 1..Len(node.kids)}

(***************************************************************************)
(* C6.  As stated: the collector records every variable reference and      *)
(* every constant reference of the tree, the ones inside index expressions *)
(* included.                                                               *)
(***************************************************************************)
CollectorRecordsEveryReference ==
    (Returns /\ ParsesCleanly) =>
        /\ \A v \in References(InputTree, "varRef") : SetContains(collector.Variables, v)
        /\ \A c \in References(InputTree, "constRef") : SetContains(collector.Constants, c)

\* the identifier without surrounding blanks and leading # characters
ConstantKey(id) == TrimStart(Trim(id), {"#"})

\* the entries of a list that name a constant: all but those whose
\* identifier is blank or a lone #
Named(constants) == {j \in 1..Len(constants) : Trim(constants[j].Id) \notin {<<>>, <<"#">>}}

ValuesFor(constants, key) ==
    {constants[j].Value : j \in {i \in Named(constants) :
                                    EqualsIgnoreCase(ConstantKey(constants[i].Id), key)}}

ConstantKeys(constants) == {ToLower(ConstantKey(constants[j].Id)) : j \in Named(constants)}

(***************************************************************************)
(* C7.  The merged table has one entry per normalized identifier; an       *)
(* identifier the request supplies maps to a value the request gives it,   *)
(* an identifier only the repository supplies keeps the repository's value.*)
(***************************************************************************)
MergedTable ==
    constantLookup # <<>> =>
        /\ \A i, j \in 1..Len(constantLookup) :
              i # j => ~EqualsIgnoreCase(constantLookup[i].key, constantLookup[j].key)
        /\ {ToLower(constantLookup[i].key) : i \in 1..Len(constantLookup)}
              = ConstantKeys(repository) \cup ConstantKeys(request.Constants)
        /\ \A key \in ConstantKeys(request.Constants) :
              Lookup(constantLookup, key).Value \in ValuesFor(request.Constants, key)
        /\ \A key \in ConstantKeys(repository) \ ConstantKeys(request.Constants) :
              Lookup(constantLookup, key).Value \in ValuesFor(repository, key)

\* the request overrides a predefined constant with another value
MergedTableWitness ==
    /\ Returns
    /\ constantLookup # <<>>
    /\ \E key \in ConstantKeys(request.Constants) \cap ConstantKeys(repository) :
          /\ ValuesFor(request.Constants, key) \cap ValuesFor(repository, key) = {}
          /\ Lookup(constantLookup, key).Value \in ValuesFor(request.Constants, key)

(***************************************************************************)
(* C8.  As stated: reordering the measured values or the constants of a    *)
(* request leaves is_valid, result and error unchanged.                    *)
(***************************************************************************)
OrderIndependence ==
    (Returns /\ baseline.has) =>
        /\ result.IsValid = baseline.result.IsValid
        /\ result.Result = baseline.result.Result
        /\ result.Error = baseline.result.Error

\* the arity contract of the registry, by tag
ArityAllows(impl, n) ==
    CASE impl = "round" -> n \in {1, 2}
      [] impl \in {"pow", "mod", "gcd", "lcm"} -> n = 2
      [] impl = "if" -> n = 3
      [] impl \in {"min", "max", "sum", "prod", "mean", "avg"} -> n >= 1
      [] impl \in {"var", "std"} -> n >= 2
      [] OTHER -> n = 1

RECURSIVE Calls(_)
\* [name, n] for every function call of the tree
Calls(node) ==
    (IF node.t = "funcCall" THEN {[name |-> node.text, n |-> Len(node.kids)]} ELSE {})
        \cup UNION {Calls(node.kids[i]) : i \in 1..Len(node.kids)}

(***************************************************************************)
(* C9.  As stated: a formula with a call of a registry function whose      *)
(* argument count violates the arity contract is rejected.                 *)
(***************************************************************************)
ArityViolationRejected ==
    (Returns /\ ParsesCleanly
        /\ \E call \in Calls(InputTree) :
              HasFunction(call.name) /\ ~ArityAllows(FunctionImpl(call.name), call.n)) =>
        ~result.IsValid

(***************************************************************************)
(* C10.  As stated: no returned error carries the prefix of the fallback   *)
(* handler.                                                                *)
(***************************************************************************)
FallbackNeverTaken ==
    Returns => result.Error.prefix # "Validation error: "

\* the call got past the parse, the normalization and the semantic checks:
\* it returns from the evaluation
Evaluates ==
    /\ Returns /\ ParsesCleanly /\ MeasuredOutcome.error = NoMsg
    /\ VariableChecks(collector, MeasuredOutcome.lookup) = NoMsg
    /\ ConstantAndUnitChecks(collector, MeasuredOutcome.lookup, constantLookup) = NoMsg

\* the outcome of the evaluator of the current call on a subtree of the input
ValueOf(node) ==
    Visit(node, BuildMeasuredMap(DictValues(MeasuredOutcome.lookup)).map,
          BuildConstantMap(DictValues(constantLookup)).map)

RECURSIVE Subtrees(_)
\* the nodes of a tree
Subtrees(node) == {node} \cup UNION {Subtrees(node.kids[i]) : i \in 1..Len(node.kids)}

RECURSIVE Operand(_)
\* the node under the contexts that only hand their single child on
Operand(node) ==
    IF node.t \in {"formula", "cmp", "add", "mul", "pow", "paren"} /\ Len(node.kids) = 1
    THEN Operand(node.kids[1])
    ELSE node

\* the number of suffixes of type t of a variable reference
SuffixCount(node, t) == Cardinality({i \in 1..Len(node.kids) : node.kids[i].t = t})

(***************************************************************************)
(* C11.  As stated: a formula with a variable reference that carries two   *)
(* or more index suffixes, or two or more unit tags, fails.                *)
(***************************************************************************)
MultipleSuffixesRejected ==
    (Returns /\ ParsesCleanly
        /\ \E node \in Subtrees(InputTree) :
              /\ node.t = "varRef"
              /\ (SuffixCount(node, "index") >= 2 \/ SuffixCount(node, "unit") >= 2)) =>
        ~result.IsValid

\* a whole number, tracked or beyond the range of int
Whole(i) == (i.k = "fin" /\ i.d = 1) \/ i.k = "big"

\* i is within 1e-9 of a whole number
NearWhole(i) ==
    \/ i.k = "big"
    \/ /\ i.k = "fin"
       /\ LET diff == DAbs(DSub(i, RoundEven(i)))
          IN diff.n = 0 \/ (diff.d \div diff.n) >= IndexToleranceInverse

\* i >= n for a whole number i
AtLeast(i, n) == IF i.k = "big" THEN i.n > 0 ELSE i.n >= n

(***************************************************************************)
(* C12.  As stated: for a reference `$name[expr]` to a vector of length L  *)
(* whose index evaluates to a finite i, the outcome is decided by the      *)
(* value of i alone: element i for a whole i in 0..L-1, the out-of-range   *)
(* error for a whole i >= L, the non-negative error for a whole i < 0, the *)
(* integer error for an i not within 1e-9 of a whole number.               *)
(***************************************************************************)
IndexClassification ==
    LET ref == Operand(InputTree) IN
    (/\ Evaluates
     /\ ref.t = "varRef" /\ Len(ref.kids) = 1 /\ ref.kids[1].t = "index"
     /\ ValueOf(ref.kids[1].kids[1]).ok
     /\ ValueOf(ref.kids[1].kids[1]).v.k \in {"fin", "big"}) =>
        LET i == ValueOf(ref.kids[1].kids[1]).v
            values == Lookup(MeasuredOutcome.lookup, ref.text).Values
        IN /\ (Whole(i) /\ AtLeast(i, 0) /\ ~AtLeast(i, Len(values))) =>
                 (result.IsValid /\ result.Result = values[i.n + 1])
           /\ (Whole(i) /\ AtLeast(i, Len(values))) =>
                 result.Error.text = "Index <n> is out of range for variable '<name>'."
           /\ (Whole(i) /\ ~AtLeast(i, 0)) =>
                 result.Error.text = "Index for variable '<name>' must be non-negative."
           /\ ~NearWhole(i) =>
                 result.Error.text = "Index for variable '<name>' must be an integer."

\* a measured value that declares both a scalar and a vector, or neither
Malformed(mv) == mv.HasValue = (Len(mv.Values) > 0)

MalformedEntries == {i \in 1..Len(request.MeasuredValues) : Malformed(request.MeasuredValues[i])}

DefinitionalTexts ==
    {"Measured value id cannot be empty.",
     "Duplicate variable: $<name>",
     "Variable '$<name>' cannot define both 'value' and 'values'.",
     "Variable '$<name>' must define either 'value' or 'values'."}

Known(alias) ==
    \E i \in 1..Len(UnitAliases) : ToLower(UnitAliases[i].alias) = ToLower(Trim(alias))

\* both aliases are keys of the alias dictionary of one quantity
SameCategory(from, to) ==
    \E i, j \in 1..Len(UnitAliases) :
        /\ UnitAliases[i].category = UnitAliases[j].category
        /\ ToLower(UnitAliases[i].alias) = ToLower(Trim(from))
        /\ ToLower(UnitAliases[j].alias) = ToLower(Trim(to))

Blank(alias) == Trim(alias) = <<>>

(***************************************************************************)
(* C14.  TryConvert succeeds exactly when neither alias is blank and the   *)
(* two aliases, without surrounding blanks, either belong to the same      *)
(* quantity or are equal ignoring case; in the latter case, with aliases   *)
(* unknown to the catalog, the result is the value unchanged.  It fails    *)
(* for a blank alias, for exactly one unknown alias, for two different     *)
(* unknown aliases and for aliases of different quantities.                *)
(***************************************************************************)
TryConvertContract ==
    pc = "converted" =>
        LET from == conversion.fromUnit
            to == conversion.toUnit
            equal == ToLower(Trim(from)) = ToLower(Trim(to))
        IN /\ conversion.ok <=>
                  (~Blank(from) /\ ~Blank(to) /\ (SameCategory(from, to) \/ equal))
           /\ (conversion.ok /\ ~Known(from)) => conversion.result = conversion.value
           /\ (Blank(from) \/ Blank(to)) => ~conversion.ok
           /\ (Known(from) # Known(to)) => ~conversion.ok
           /\ (~Known(from) /\ ~Known(to) /\ ~equal) => ~conversion.ok
           /\ (Known(from) /\ Known(to) /\ ~SameCategory(from, to)) => ~conversion.ok

\* an alias unknown to the catalog converted to itself in another case
TryConvertContractWitness ==
    /\ pc = "converted"
    /\ conversion.ok
    /\ ~Known(conversion.fromUnit)
    /\ conversion.fromUnit # conversion.toUnit
    /\ conversion.result = conversion.value

(***************************************************************************)
(* C18.  As stated: the constants the repository holds after its           *)
(* construction all have a finite value and a non-empty identifier.        *)
(***************************************************************************)
RepositoryHoldsOnlyValidConstants ==
    pc = "constructed" =>
        \A i \in 1..Len(repository) :
            /\ repository[i].Value.k \notin {"nan", "pinf", "ninf"}
            /\ ~IsNullOrWhiteSpace(repository[i].Id)

\* the outcome of evaluator.Visit(tree) in the current call
Outcome ==
    Evaluate(InputTree, DictValues(MeasuredOutcome.lookup), DictValues(constantLookup))

PolicyTexts ==
    {"Result is not a real number (NaN)", "Result is infinity - division by zero or overflow"}

(***************************************************************************)
(* C15.  The NaN/infinity policy looks at the final value only.  When the  *)
(* evaluation completes, the envelope is the NaN failure exactly for a NaN *)
(* final value, the infinity failure exactly for an infinite final value,  *)
(* and valid with that value exactly for a finite one; the two failures    *)
(* are returned in no other case.  A non-finite value of a subexpression   *)
(* has no influence beyond the value it gives to the whole formula.        *)
(***************************************************************************)
FinalValuePolicy ==
    /\ (Evaluates /\ Outcome.ok) =>
          /\ IsNaN(Outcome.v) <=> result.Error = Msg("Result is not a real number (NaN)")
          /\ IsInfinity(Outcome.v) <=>
                result.Error = Msg("Result is infinity - division by zero or overflow")
          /\ (~IsNaN(Outcome.v) /\ ~IsInfinity(Outcome.v)) <=> result.IsValid
          /\ result.IsValid => result.Result = Outcome.v
    /\ (Returns /\ result.Error.text \in PolicyTexts) => (Evaluates /\ Outcome.ok)

\* a valid envelope for a formula with an infinite or NaN subexpression
FinalValuePolicyWitness ==
    /\ Evaluates
    /\ result.IsValid
    /\ \E sub \in Subtrees(InputTree) :
          /\ sub.t \notin {"index", "unit"}
          /\ ValueOf(sub).ok
          /\ (IsNaN(ValueOf(sub).v) \/ IsInfinity(ValueOf(sub).v))

\* the outcomes of the evaluator on the operands of a chain
Operands(chain) == [i \in 1..Len(chain.kids) |-> ValueOf(chain.kids[i])]

\* the chains of type t in the input whose operands all evaluate
Chains(t) ==
    {sub \in Subtrees(InputTree) :
        sub.t = t /\ Len(sub.kids) >= 2 /\ \A i \in 1..Len(sub.kids) : Operands(sub)[i].ok}

RECURSIVE LeftNested(_, _)
\* ((u1 ^ u2) ^ u3) ... ^ un
LeftNested(u, n) == IF n = 1 THEN u[1].v ELSE DPow(LeftNested(u, n - 1), u[n].v)

(***************************************************************************)
(* C16.  Every chain u1 ^ u2 ^ ... ^ un of the formula, n >= 2, has the    *)
(* value ((u1 ^ u2) ^ u3) ... ^ un; `2^3^2` is 64.                         *)
(***************************************************************************)
PowerLeftAssociative ==
    /\ Evaluates =>
          \A chain \in Chains("pow") :
              ValueOf(chain) = Ok(LeftNested(Operands(chain), Len(chain.kids)))
    /\ (Evaluates /\ Input = <<"2", "^", "3", "^", "2">>) =>
          (result.IsValid /\ result.Result = Int2D(64))

\* a formula u1 ^ u2 ^ u3 whose value is not u1 ^ (u2 ^ u3)
PowerLeftAssociativeWitness ==
    /\ Evaluates
    /\ result.IsValid
    /\ Operand(InputTree) \in Chains("pow")
    /\ Len(Operand(InputTree).kids) = 3
    /\ LET u == Operands(Operand(InputTree))
       IN result.Result # DPow(u[1].v, DPow(u[2].v, u[3].v))

\* a op b on rationals
Holds(op, a, b) ==
    CASE op = <<">">> -> Less(b, a)
      [] op = <<"<">> -> Less(a, b)
      [] op = <<">", "=">> -> ~Less(a, b)
      [] op = <<"<", "=">> -> ~Less(b, a)
      [] op = <<"=", "=">> -> a = b
      [] op = <<"!", "=">> -> a # b

RECURSIVE Reduced(_, _, _)
\* the running value of a comparison chain after its first n operands
Reduced(u, ops, n) ==
    IF n = 1 THEN u[1].v
    ELSE IF Holds(ops[n - 1], Reduced(u, ops, n - 1), u[n].v) THEN Int2D(1) ELSE Int2D(0)

(***************************************************************************)
(* C17.  A chain of comparisons is reduced from left to right: the running *)
(* value starts as the first operand and each comparator replaces it by 1  *)
(* when it holds between the running value and the next operand, by 0      *)
(* otherwise.  The value of a chain is 0 or 1; a cmp context without a     *)
(* comparator has the value of its operand.  `3 > 2 > 1` is 0 and          *)
(* `1 < 2 < 3` is 1.                                                       *)
(***************************************************************************)
ComparisonChainReduced ==
    /\ Evaluates =>
          /\ \A chain \in Chains("cmp") :
                /\ ValueOf(chain).ok
                /\ ValueOf(chain).v \in {Int2D(0), Int2D(1)}
                /\ (\A i \in 1..Len(chain.kids) : Operands(chain)[i].v.k = "fin") =>
                      ValueOf(chain).v = Reduced(Operands(chain), chain.ops, Len(chain.kids))
          /\ \A sub \in Subtrees(InputTree) :
                (sub.t = "cmp" /\ Len(sub.kids) = 1) => ValueOf(sub) = ValueOf(sub.kids[1])
    /\ (Evaluates /\ Operand(InputTree) \in Chains("cmp")) =>
          (result.IsValid /\ result.Result \in {Int2D(0), Int2D(1)})
    /\ (Evaluates /\ Input = <<"3", " ", ">", " ", "2", " ", ">", " ", "1">>) =>
          (result.IsValid /\ result.Result = Int2D(0))
    /\ (Evaluates /\ Input = <<"1", " ", "<", " ", "2", " ", "<", " ", "3">>) =>
          (result.IsValid /\ result.Result = Int2D(1))

\* a chain a > b > c with a > b and b > c whose value is 0
ComparisonChainReducedWitness ==
    /\ Evaluates
    /\ Operand(InputTree) \in Chains("cmp")
    /\ Len(Operand(InputTree).kids) = 3
    /\ LET chain == Operand(InputTree)
           u == Operands(chain)
       IN /\ \A i \in 1..3 : u[i].v.k = "fin"
          /\ Holds(chain.ops[1], u[1].v, u[2].v)
          /\ Holds(chain.ops[2], u[2].v, u[3].v)
          /\ result.Result = Int2D(0)

\* the identifier names the reference: it is the name of the reference, with
\* or without the prefix, in any letter case
Names(id, name, prefix) == ToLower(id) \in {ToLower(name), ToLower(<<prefix>> \o name)}

\* the entries of a list whose identifier names the reference
Named2(list, name, prefix) == {i \in 1..Len(list) : Names(list[i].Id, name, prefix)}

\* the error of the envelope is the given text about the given name
ErrorAbout(text, name) == result.Error.text = text /\ result.Error.args = <<name>>

IfCalls ==
    {sub \in Subtrees(InputTree) :
        sub.t = "funcCall" /\ ToLower(sub.text) = <<"i", "f">> /\ Len(sub.kids) = 3}

\* the first of the outcomes that is an exception
FirstThrown(u) == u[CHOOSE i \in 1..Len(u) : ~u[i].ok /\ \A j \in 1..(i - 1) : u[j].ok]

\* the value is a number other than zero
Nonzero(v) == ~IsNaN(v) /\ ~(v.k = "fin" /\ v.n = 0)

\* the value is a number more than double.Epsilon away from zero
BeyondEpsilon(v) == Nonzero(v) /\ v.k # "eps"

IfIgnoresUnselectedValue ==
    /\ Evaluates
    /\ Operand(InputTree) \in IfCalls
    /\ LET u == Operands(Operand(InputTree))
       IN /\ \A i \in 1..3 : u[i].ok
          /\ BeyondEpsilon(u[1].v) /\ IsInfinity(u[3].v)
          /\ result.IsValid /\ result.Result = u[2].v

\* the calls of `fact` with one argument in the input
FactCalls ==
    {sub \in Subtrees(InputTree) :
        sub.t = "funcCall" /\ ToLower(sub.text) = <<"f", "a", "c", "t">> /\ Len(sub.kids) = 1}

RECURSIVE TimesWords(_, _, _)
\* the words of w * i, none dropped
TimesWords(w, i, carry) ==
    IF w = <<>> THEN IF carry = 0 THEN <<>> ELSE <<carry>>
    ELSE <<(Head(w) * i + carry) % LongWord>>
             \o TimesWords(Tail(w), i, (Head(w) * i + carry) \div LongWord)

RECURSIVE Product1To(_)
\* the words of n! = 1 * 2 * ... * n
Product1To(n) == IF n <= 1 THEN <<1>> ELSE TimesWords(Product1To(n - 1), n, 0)

\* the words given, filled up with zeros to the four words of a long
AsLong(w) == IF Len(w) >= 4 THEN w ELSE w \o [k \in 1..(4 - Len(w)) |-> 0]

FitsLong(w) == Len(w) < 4 \/ (Len(w) = 4 /\ 2 * w[4] < LongWord)

\* the largest rounded argument the properties of `fact` look at
MaxFactorialArgument == 25

(***************************************************************************)
(* C21.  For every argument x whose rounded value n is a whole number that *)
(* is not negative, `fact(x)` returns exactly n!: the accumulator ends as  *)
(* n!, which has not wrapped around, and the value returned is not         *)
(* negative; for n < 0 the call fails.                                     *)
(***************************************************************************)
FactorialExact ==
    Evaluates =>
        \A call \in FactCalls :
            LET x == ValueOf(call.kids[1]) IN
            (x.ok /\ x.v.k = "fin" /\ RoundEven(x.v).n <= MaxFactorialArgument) =>
                LET n == RoundEven(x.v).n IN
                IF n < 0
                THEN ValueOf(call) =
                         Throw("ArgumentException", Msg("Factorial undefined for negative numbers."))
                ELSE /\ FitsLong(Product1To(n))
                     /\ FactorialLoop(<<1, 0, 0, 0>>, 2, n) = AsLong(Product1To(n))
                     /\ ValueOf(call) = Ok(LongToDouble(AsLong(Product1To(n))))
                     /\ SignOf(ValueOf(call).v) > 0

\* the references to a scalar variable that carry one index, a whole number
\* written out, and nothing else
IndexedScalars ==
    {ref \in Subtrees(InputTree) :
        /\ ref.t = "varRef"
        /\ Len(ref.kids) = 1 /\ ref.kids[1].t = "index"
        /\ Operand(ref.kids[1].kids[1]).t = "number"
        /\ Whole(ValueOf(ref.kids[1].kids[1]).v)
        /\ \E i \in Named2(request.MeasuredValues, ref.text, "$") :
              request.MeasuredValues[i].HasValue /\ Len(request.MeasuredValues[i].Values) = 0}

(***************************************************************************)
(* C22.  As stated: whenever the formula is rejected because a scalar      *)
(* variable is used with an index, the error is                            *)
(* `Variable '<name>' is scalar but is used with an index.`: when the      *)
(* semantic checks find no undefined variable and an indexed scalar among  *)
(* the collected variables, and when the evaluation fails at a reference   *)
(* to a scalar with an index, which is then inside the index expression of *)
(* another variable.                                                       *)
(***************************************************************************)
ScalarWithIndexMessage ==
    /\ (Returns /\ ParsesCleanly /\ MeasuredOutcome.error = NoMsg
          /\ (\A v \in Elements(collector.Variables) :
                 Named2(request.MeasuredValues, v, "$") # {})
          /\ \E ref \in IndexedScalars : SetContains(collector.VariablesWithIndex, ref.text)) =>
          /\ ~result.IsValid
          /\ result.Error.text = "Variable '<name>' is scalar but is used with an index."
          /\ result.Error.prefix = ""
    /\ Evaluates =>
          \A ref \in IndexedScalars :
              (~Outcome.ok /\ Outcome = ValueOf(ref)) =>
                  /\ ~result.IsValid
                  /\ result.Error =
                        MsgArg("Variable '<name>' is scalar but is used with an index.", ref.text)

GraphqlReturns == pc = "validated"

\* the trimmed formula of the request of the graphql-version backend
GraphqlFormula == Trim(request.Formula)

\* the Ids of the entries of a list that have one
GraphqlIds(entries) == {entries[i].Id.text : i \in {j \in 1..Len(entries) : ~entries[j].Id.null}}

\* the names that follow the prefix character in the formula
GraphqlReferences(prefix) ==
    {SubSeq(GraphqlFormula, i + 1, RunEnd(GraphqlFormula, i + 1, IdentPartSet) - 1) :
        i \in {j \in 1..(Len(GraphqlFormula) - 1) :
                  GraphqlFormula[j] = prefix /\ GraphqlFormula[j + 1] \in IdentStartSet}}

\* the formula has one of the defects of the validation rules: two variables
\* or two numbers with only white space between them, two operators in a row,
\* an operator at the start or at the end, empty parentheses, as many "(" as
\* ")" not being the case, a doubled or dangling $ or #, a # before a digit,
\* a reference to a variable or a constant the request does not define, or a
\* first call of a function outside the allowed ones
GraphqlDefect ==
    LET f == GraphqlFormula
        n == Len(f)
        pair(i, a, b) == i < n /\ f[i] \in a /\ f[i + 1] \in b
        gap(i, j) == i < j /\ \A k \in (i + 1)..(j - 1) : f[k] \in WhiteSet
        calls == {i \in 1..n :
                     /\ f[i] \in IdentStartSet
                     /\ i > 1 => f[i - 1] \notin (IdentPartSet \cup {"$", "#"})
                     /\ \E j \in (i + 1)..n :
                            /\ f[j] = "("
                            /\ \E e \in i..(j - 1) : /\ \A k \in i..e : f[k] \in IdentPartSet
                                                    /\ gap(e, j)}
    IN \/ \E i, j \in 1..n : /\ j > i + 1 /\ gap(i, j)
                             /\ \/ f[i] \in DigitSet /\ f[j] \in DigitSet
                                \/ /\ f[i] \in IdentPartSet /\ pair(j, {"$"}, IdentStartSet)
                                   /\ \E k \in 1..(i - 1) : /\ pair(k, {"$"}, IdentStartSet)
                                                            /\ \A m \in (k + 1)..i : f[m] \in IdentPartSet
       \/ \E i \in 1..n : pair(i, GraphqlOperators, GraphqlOperators)
       \/ n > 0 /\ f[1] \in {"+", "*", "/"}
       \/ n > 0 /\ f[n] \in GraphqlOperators
       \/ \E i, j \in 1..n : f[i] = "(" /\ f[j] = ")" /\ gap(i, j)
       \/ Cardinality({i \in 1..n : f[i] = "("}) # Cardinality({i \in 1..n : f[i] = ")"})
       \/ \E i \in 1..n : pair(i, {"$"}, {"$"}) \/ pair(i, {"#"}, {"#"}) \/ pair(i, {"#"}, DigitSet)
       \/ n > 0 /\ f[n] \in {"$", "#"}
       \/ GraphqlReferences("$") \ GraphqlIds(request.MeasuredValues) # {}
       \/ GraphqlReferences("#") \ GraphqlIds(request.Constants) # {}
       \/ /\ calls # {}
          /\ LET i == CHOOSE i \in calls : \A j \in calls : i <= j
             IN ToLower(SubSeq(f, i, RunEnd(f, i, IdentPartSet) - 1)) \notin GraphqlAllowedFunctions

\* the formula passes every check of ValidateFormula and no Id is null
GraphqlPassesChecks ==
    /\ ~IsNullOrWhiteSpace(request.Formula)
    /\ GraphqlChecks(GraphqlFormula) = NoMsg
    /\ \A i \in 1..Len(request.MeasuredValues) : ~request.MeasuredValues[i].Id.null
    /\ \A i \in 1..Len(request.Constants) : ~request.Constants[i].Id.null
    /\ GraphqlUndefined(GraphqlSubstitute(GraphqlSubstitute(GraphqlFormula, "$", request.MeasuredValues),
                                          "#", request.Constants)) = NoMsg

DebouncedValidation ==
    /\ [](pc = "page" => Cardinality(page.timers) <= 1)
    /\ [][page'.event.kind = "change" => page'.timers = {[id |-> page.nextHandle, run |-> 0]}]_vars
    /\ [][page'.event.kind \in {"timer", "click"} => page'.timers \cap page.timers = {}]_vars
    /\ [][page'.event.kind = "timer" => page'.event.timer >= page.acted]_vars


\* C26: when the answer that leaves no request in flight has been processed,
\* the result, the validation status, the error list and the annotations
\* shown are those the answer to the request sent last produced, in
\* whichever order the answers arrived.
LatestRequestDisplayed ==
    [][(page'.event.kind = "answer" /\ page'.inflight = {}) => View(page') = page'.latest.view]_vars


\* the formulas normalizeFormulaSymbols is applied to twice
NormalizedTwice == SeqsUpTo({"$", "#", "a"}, 4) \cup EditorTexts \cup {page.editor}

\* C27: the validation loop quiesces.  normalizeFormulaSymbols is
\* idempotent; a run of performBackendValidation that rewrites the editor
\* leaves it normalized and schedules one further debounced validation; the
\* run that timer starts makes no further edit and schedules nothing; and,
\* the user acting finitely often, eventually no timer is pending, no
\* request is in flight and no new request is issued.
ValidationQuiesces ==
    /\ [](pc = "page" =>
             \A f \in NormalizedTwice :
                 normalizeFormulaSymbols(normalizeFormulaSymbols(f, 1), 1) = normalizeFormulaSymbols(f, 1))
    /\ [][page'.event.rewrote =>
             /\ normalizeFormulaSymbols(page'.editor, 1) = page'.editor
             /\ page'.timers \ page.timers = {[id |-> page.nextHandle, run |-> page'.runs]}]_vars
    /\ [][(page'.event.kind = "timer" /\ page'.event.by # 0) =>
             /\ page'.editor = page.editor
             /\ page'.timers \subseteq page.timers]_vars
    /\ <>[](page.timers = {} /\ page.inflight = {})
    /\ <>[][page'.requestCount = page.requestCount]_vars

\* the validation a rewrite scheduled has run, has made no edit, and has
\* left no timer pending
ValidationQuiescesWitness ==
    /\ pc = "page"
    /\ page.event.kind = "timer"
    /\ page.event.by # 0
    /\ ~page.event.rewrote
    /\ page.editor = <<"#", "k", " ", "+", " ", "$", "a">>
    /\ page.timers = {}


\* C28: after any sequence of addToHistory calls state.formulaHistory holds
\* at most 10 entries, the newest first, and they are exactly the
\* min(n, 10) pairs added last, n being the number of calls.
HistoryKeepsTenNewest ==
    pc = "history" =>
        /\ Len(page.formulaHistory) <= 10
        /\ Len(page.formulaHistory) = (IF Len(page.added) < 10 THEN Len(page.added) ELSE 10)
        /\ page.formulaHistory = SubSeq(page.added, 1, Len(page.formulaHistory))

\* more than 10 pairs have been added, the oldest of them differs from the
\* oldest the history holds
HistoryKeepsTenNewestWitness ==
    /\ pc = "history"
    /\ Len(page.added) > 10
    /\ Len(page.formulaHistory) = 10
    /\ page.added[Len(page.added)] # page.formulaHistory[10]


\* the members of a HashSet of the collector, without regard to letter case
Members(set) == {ToLower(set[i]) : i \in 1..Len(set)}

\* C29: the record SymbolCollector produces for a parsed formula satisfies
\* VariablesWithIndex \cup VariablesWithoutIndex = Variables and
\* VariablesWithUnit \subseteq Variables, compared without regard to letter
\* case, and visiting the same tree again with the same collector leaves
\* all five sets unchanged.
SymbolCollectorConsistent ==
    (Returns /\ ParsesCleanly) =>
        /\ collector = Collect(NewSymbolCollector, InputTree)
        /\ Members(collector.VariablesWithIndex) \cup Members(collector.VariablesWithoutIndex)
               = Members(collector.Variables)
        /\ Members(collector.VariablesWithUnit) \subseteq Members(collector.Variables)
        /\ Collect(collector, InputTree) = collector

\* a formula that uses one variable with an index and without, in two
\* letter cases, and a variable with a unit
SymbolCollectorConsistentWitness ==
    /\ Returns
    /\ ParsesCleanly
    /\ Members(collector.VariablesWithIndex) \cap Members(collector.VariablesWithoutIndex) # {}
    /\ collector.VariablesWithUnit # <<>>
    /\ collector.Constants # <<>>


\* C30: runTests is not re-entrant and always releases its guard.  A call
\* made while state.testRunning is true changes neither the run in progress
\* nor the results; the test cases are executed one at a time in the order
\* of the list, the request of a test case being sent only when the results
\* of all the test cases before it are in; and every run that starts sets
\* state.testRunning back to false, whichever answers its requests get.
RunTestsReleasesGuard ==
    /\ [][page'.event = "ignored" =>
             page' = [page EXCEPT !.calls = page'.calls, !.event = "ignored"]]_vars
    /\ [](pc = "tests" =>
             /\ page.fetching # 0 => (page.testRunning /\ ~page.waiting /\ page.fetching = Len(page.results) + 1)
             /\ Len(page.results) <= Len(page.testCases)
             /\ \A k \in 1..Len(page.results) : page.results[k].name = page.testCases[k].name
             /\ page.rendered = page.results
             /\ ~page.testRunning => (page.fetching = 0 /\ ~page.waiting /\ ~page.disabled))
    /\ [][(page.testRunning /\ ~page'.testRunning) => Len(page'.results) = Len(page.testCases)]_vars
    /\ (pc = "tests" /\ page.testRunning) ~> (~page.testRunning)

\* a run over three test cases has ended after a request that hit a network
\* error and a call that was ignored
RunTestsReleasesGuardWitness ==
    /\ pc = "tests"
    /\ ~page.testRunning
    /\ Len(page.results) = 3
    /\ page.results[2].actual = "Network error"
    /\ page.calls = 2
    /\ page.event = "delayed"
    /\ page.toast = <<2, 1>>

=============================================================================
